---- MODULE Spec2Model ----
(***************************************************************************)
(* Model of akstaging/hosts.py (class HostsFileEdit): the hosts-file line  *)
(* parser, the entry mutator (update / delete / remove), the atomic writer *)
(* and the privilege-escalation dispatcher.                                *)
(*                                                                         *)
(* Text is modelled character by character: a Python str is a sequence of  *)
(* one-character strings, so strip(), split(), lower(), join() and         *)
(* readlines() are computed the way Python computes them.                  *)
(***************************************************************************)
EXTENDS Integers, Sequences, FiniteSets

----------------------------------------------------------------------------
(* Bounds of the model.                                                    *)

\* Number of lines of the initial hosts file.
MaxLines == 2
\* Number of public operations run one after the other.
MaxOps == 2
\* Number of failures (an exception from a system call, a kill) in one run.
MaxFaults == 2

----------------------------------------------------------------------------
(* Python str primitives.                                                  *)

NL == "\n"
WS == {" ", "\t", NL}

RECURSIVE lstrip(_)
lstrip(s) ==
    IF s = <<>> THEN s
    ELSE IF Head(s) \in WS THEN lstrip(Tail(s)) ELSE s

RECURSIVE rstrip(_)
rstrip(s) ==
    IF s = <<>> THEN s
    ELSE IF s[Len(s)] \in WS THEN rstrip(SubSeq(s, 1, Len(s) - 1)) ELSE s

strip(s) == rstrip(lstrip(s))

\* Index of the first element of s that is in set cs, or 0.
FirstIn(s, cs) ==
    IF \E i \in 1..Len(s) : s[i] \in cs
    THEN CHOOSE i \in 1..Len(s) : s[i] \in cs /\ \A j \in 1..(i - 1) : s[j] \notin cs
    ELSE 0

\* str.split(): whitespace-separated tokens.
RECURSIVE split(_)
split(s) ==
    LET t == lstrip(s)
        n == FirstIn(t, WS)
    IN  IF t = <<>> THEN <<>>
        ELSE IF n = 0 THEN <<t>>
        ELSE <<SubSeq(t, 1, n - 1)>> \o split(SubSeq(t, n, Len(t)))

\* str.split(maxsplit=1): first token, then the rest without leading whitespace.
split_maxsplit1(s) ==
    LET t == lstrip(s)
        n == FirstIn(t, WS)
        rest == IF n = 0 THEN <<>> ELSE lstrip(SubSeq(t, n, Len(t)))
    IN  IF t = <<>> THEN <<>>
        ELSE IF rest = <<>> THEN <<IF n = 0 THEN t ELSE SubSeq(t, 1, n - 1)>>
        ELSE <<SubSeq(t, 1, n - 1), rest>>

\* str.split("#", 1)[0] and [1].
before_hash(s) ==
    LET n == FirstIn(s, {"#"}) IN IF n = 0 THEN s ELSE SubSeq(s, 1, n - 1)
after_hash(s) ==
    LET n == FirstIn(s, {"#"}) IN IF n = 0 THEN <<>> ELSE SubSeq(s, n + 1, Len(s))

has_hash(s) == FirstIn(s, {"#"}) # 0
startswith_hash(s) == s # <<>> /\ Head(s) = "#"

lower_char(c) ==
    CASE c = "A" -> "a"
      [] c = "B" -> "b"
      [] c = "C" -> "c"
      [] OTHER -> c
lower(s) == [i \in 1..Len(s) |-> lower_char(s[i])]

\* " ".join(parts)
RECURSIVE join(_)
join(parts) ==
    IF parts = <<>> THEN <<>>
    ELSE IF Len(parts) = 1 THEN parts[1]
    ELSE parts[1] \o <<" ">> \o join(Tail(parts))

\* file.readlines(): lines with their terminators kept.
RECURSIVE readlines(_)
readlines(content) ==
    LET n == FirstIn(content, {NL})
    IN  IF content = <<>> THEN <<>>
        ELSE IF n = 0 THEN <<content>>
        ELSE <<SubSeq(content, 1, n)>> \o readlines(SubSeq(content, n + 1, Len(content)))

\* file.writelines(lines): the strings one after the other, nothing added.
RECURSIVE writelines(_)
writelines(lines) ==
    IF lines = <<>> THEN <<>> ELSE Head(lines) \o writelines(Tail(lines))

----------------------------------------------------------------------------
(* Status (status_codes.py).                                               *)

Status ==
    {"SUCCESS", "ERROR_PERMISSION", "ERROR_NOT_FOUND", "ERROR_IO", "ERROR_INTERNAL",
     "USER_CANCELLED", "ALREADY_EXISTS", "ERROR_UNSUPPORTED_FLATPAK"}

----------------------------------------------------------------------------
(* Line parser: HostsFileEdit._parse_hosts_line.                           *)
(* Python's None is carried by the flags ip_none and comment_none.         *)

NotParsed(comment_none, comment) ==
    [ip_none |-> TRUE, ip |-> <<>>, hosts |-> <<>>, norm |-> <<>>,
     comment_none |-> comment_none, comment |-> comment]

_parse_hosts_line(line_content) ==
    LET stripped_line == strip(line_content)
        line_before_comment == strip(before_hash(stripped_line))
        trailing_comment_text ==
            IF has_hash(stripped_line) THEN after_hash(stripped_line) ELSE <<>>
        parts == split(line_before_comment)
    IN  IF stripped_line = <<>> THEN NotParsed(TRUE, <<>>)
        ELSE IF startswith_hash(stripped_line) THEN NotParsed(FALSE, stripped_line)
        ELSE IF line_before_comment = <<>> THEN NotParsed(FALSE, stripped_line)
        ELSE IF Len(parts) < 2 THEN NotParsed(FALSE, strip(line_content))
        ELSE [ip_none |-> FALSE, ip |-> parts[1], hosts |-> Tail(parts),
              norm |-> [i \in 1..(Len(parts) - 1) |-> lower(parts[i + 1])],
              comment_none |-> FALSE, comment |-> trailing_comment_text]

InSeq(x, s) == \E i \in 1..Len(s) : s[i] = x

----------------------------------------------------------------------------
(* Entry mutator, per line.                                                *)

\* [parsed_original_hostnames[i] for i, norm_host in enumerate(...)
\*  if norm_host != domain_lower]
RECURSIVE remaining_from(_, _, _)
remaining_from(hosts, norm, domain_lower) ==
    IF hosts = <<>> THEN <<>>
    ELSE (IF Head(norm) # domain_lower THEN <<Head(hosts)>> ELSE <<>>)
         \o remaining_from(Tail(hosts), Tail(norm), domain_lower)

\* new_line = " ".join([parsed_ip] + hostnames), then the comment is added
\* whenever parsed_comment_text is not None; for a parsed line it is the text
\* after the first '#', or "" when the line has no '#'.
rebuild_line(p, hostnames) ==
    LET new_line == join(<<p.ip>> \o hostnames)
        with_comment ==
            IF ~p.comment_none
            THEN new_line \o (IF ~startswith_hash(p.comment)
                              THEN <<" ", "#">> \o p.comment
                              ELSE <<" ">> \o p.comment)
            ELSE new_line
    IN  strip(with_comment)

\* keep_unparsed with the "\n" after the normalised text forgotten.
keep_unparsed_without_newline(line_content, p) ==
    IF ~p.comment_none /\ p.comment # <<>> /\ ~startswith_hash(p.comment)
       /\ strip(p.comment) # <<>>
    THEN p.comment
    ELSE line_content

\* What both per-line functions return for a comment, blank or unparsable line.
keep_unparsed(line_content, p) ==
    IF ~p.comment_none /\ p.comment # <<>> /\ ~startswith_hash(p.comment)
       /\ strip(p.comment) # <<>>
    THEN p.comment \o <<NL>>
    ELSE line_content

\* removal_of_parsed matching on the domain alone, whatever the line's IP.
removal_of_parsed_any_ip(line_content, p, ip_to_remove, domain_to_remove_lower) ==
    LET remaining_hostnames == remaining_from(p.hosts, p.norm, domain_to_remove_lower)
    IN  IF p.ip_none
        THEN [none |-> FALSE, content |-> keep_unparsed(line_content, p), removed |-> FALSE]
        ELSE IF InSeq(domain_to_remove_lower, p.norm)
        THEN IF remaining_hostnames # <<>>
             THEN [none |-> FALSE, content |-> rebuild_line(p, remaining_hostnames) \o <<NL>>,
                   removed |-> TRUE]
             ELSE [none |-> TRUE, content |-> <<>>, removed |-> TRUE]
        ELSE [none |-> FALSE, content |-> line_content, removed |-> FALSE]

\* The body of _process_line_for_removal after the line is parsed into p
\* -> (new_line_content, entry_removed); none = TRUE stands for
\* new_line_content = None.
removal_of_parsed(line_content, p, ip_to_remove, domain_to_remove_lower) ==
    LET remaining_hostnames == remaining_from(p.hosts, p.norm, domain_to_remove_lower)
    IN  IF p.ip_none
        THEN [none |-> FALSE, content |-> keep_unparsed(line_content, p), removed |-> FALSE]
        ELSE IF p.ip = ip_to_remove /\ InSeq(domain_to_remove_lower, p.norm)
        THEN IF remaining_hostnames # <<>>
             THEN [none |-> FALSE, content |-> rebuild_line(p, remaining_hostnames) \o <<NL>>,
                   removed |-> TRUE]
             ELSE [none |-> TRUE, content |-> <<>>, removed |-> TRUE]
        ELSE [none |-> FALSE, content |-> line_content, removed |-> FALSE]

\* HostsFileEdit._process_line_for_removal
_process_line_for_removal(line_content, ip_to_remove, domain_to_remove_lower) ==
    removal_of_parsed(line_content, _parse_hosts_line(line_content), ip_to_remove,
                      domain_to_remove_lower)

\* The hostnames of a correct-IP line with the target written as the caller
\* gave it (the loop over parsed_original_hostnames).
canonical_hostnames(hosts, sanitized_domain, sanitized_domain_lower) ==
    [i \in 1..Len(hosts) |->
        IF lower(hosts[i]) = sanitized_domain_lower THEN sanitized_domain ELSE hosts[i]]

\* update_of_parsed rebuilding every parsed line, also one that does not hold
\* the domain.
update_of_parsed_rebuilds_all(line_content, p, staging_ip, sanitized_domain, sanitized_domain_lower, delete_operation) ==
    LET remaining_hostnames == remaining_from(p.hosts, p.norm, sanitized_domain_lower)
        strip_domain ==
            IF remaining_hostnames # <<>>
            THEN [modified |-> TRUE, none |-> FALSE,
                  content |-> rebuild_line(p, remaining_hostnames) \o <<NL>>,
                  correct |-> FALSE]
            ELSE [modified |-> TRUE, none |-> TRUE, content |-> <<>>, correct |-> FALSE]
        new_line ==
            rebuild_line(p, canonical_hostnames(p.hosts, sanitized_domain,
                                                sanitized_domain_lower))
    IN  IF p.ip_none
        THEN [modified |-> FALSE, none |-> FALSE,
              content |-> keep_unparsed(line_content, p), correct |-> FALSE]
        ELSE IF ~InSeq(sanitized_domain_lower, p.norm)
        THEN [modified |-> rebuild_line(p, p.hosts) # strip(line_content),
              none |-> FALSE, content |-> rebuild_line(p, p.hosts) \o <<NL>>,
              correct |-> FALSE]
        ELSE IF delete_operation THEN strip_domain
        ELSE IF p.ip = staging_ip
        THEN [modified |-> new_line # strip(line_content), none |-> FALSE,
              content |-> new_line \o <<NL>>, correct |-> TRUE]
        ELSE strip_domain

\* update_of_parsed whose delete strips the domain only from lines of the
\* IP given, as Remove does.
update_of_parsed_delete_matches_ip(line_content, p, staging_ip, sanitized_domain, sanitized_domain_lower, delete_operation) ==
    LET remaining_hostnames == remaining_from(p.hosts, p.norm, sanitized_domain_lower)
        strip_domain ==
            IF remaining_hostnames # <<>>
            THEN [modified |-> TRUE, none |-> FALSE,
                  content |-> rebuild_line(p, remaining_hostnames) \o <<NL>>,
                  correct |-> FALSE]
            ELSE [modified |-> TRUE, none |-> TRUE, content |-> <<>>, correct |-> FALSE]
        new_line ==
            rebuild_line(p, canonical_hostnames(p.hosts, sanitized_domain,
                                                sanitized_domain_lower))
    IN  IF p.ip_none
        THEN [modified |-> FALSE, none |-> FALSE,
              content |-> keep_unparsed(line_content, p), correct |-> FALSE]
        ELSE IF ~InSeq(sanitized_domain_lower, p.norm)
        THEN [modified |-> FALSE, none |-> FALSE, content |-> line_content,
              correct |-> FALSE]
        ELSE IF delete_operation
        THEN IF p.ip = staging_ip THEN strip_domain
             ELSE [modified |-> FALSE, none |-> FALSE, content |-> line_content,
                   correct |-> FALSE]
        ELSE IF p.ip = staging_ip
        THEN [modified |-> new_line # strip(line_content), none |-> FALSE,
              content |-> new_line \o <<NL>>, correct |-> TRUE]
        ELSE strip_domain

\* The body of _process_line_for_update after the line is parsed into p
\*   -> (line_modified, new_line_content, domain_ip_correct).
update_of_parsed(line_content, p, staging_ip, sanitized_domain, sanitized_domain_lower, delete_operation) ==
    LET remaining_hostnames == remaining_from(p.hosts, p.norm, sanitized_domain_lower)
        strip_domain ==
            IF remaining_hostnames # <<>>
            THEN [modified |-> TRUE, none |-> FALSE,
                  content |-> rebuild_line(p, remaining_hostnames) \o <<NL>>,
                  correct |-> FALSE]
            ELSE [modified |-> TRUE, none |-> TRUE, content |-> <<>>, correct |-> FALSE]
        new_line ==
            rebuild_line(p, canonical_hostnames(p.hosts, sanitized_domain,
                                                sanitized_domain_lower))
    IN  IF p.ip_none
        THEN [modified |-> FALSE, none |-> FALSE,
              content |-> keep_unparsed(line_content, p), correct |-> FALSE]
        ELSE IF ~InSeq(sanitized_domain_lower, p.norm)
        THEN [modified |-> FALSE, none |-> FALSE, content |-> line_content,
              correct |-> FALSE]
        ELSE IF delete_operation THEN strip_domain
        ELSE IF p.ip = staging_ip
        THEN [modified |-> new_line # strip(line_content), none |-> FALSE,
              content |-> new_line \o <<NL>>, correct |-> TRUE]
        ELSE strip_domain

\* HostsFileEdit._process_line_for_update
_process_line_for_update(line_content, staging_ip, sanitized_domain, sanitized_domain_lower, delete_operation) ==
    update_of_parsed(line_content, _parse_hosts_line(line_content), staging_ip,
                     sanitized_domain, sanitized_domain_lower, delete_operation)

----------------------------------------------------------------------------
(* Entry mutator, whole file: the loops and the status decision of         *)
(* _remove_hosts_entry_direct and _update_hosts_file_content_direct, up to *)
(* the call of the atomic writer.                                          *)

\* One pass of the loop of _remove_hosts_entry_direct: r is what
\* _process_line_for_removal returned for line_content, rest the result of the
\* passes after it.
removal_step(line_content, r, rest) ==
    [lines_to_keep |->
        (IF ~r.none THEN <<r.content>>
         ELSE IF ~r.removed THEN <<line_content>> ELSE <<>>)
        \o rest.lines_to_keep,
     entry_found_and_removed |-> r.removed \/ rest.entry_found_and_removed]

RECURSIVE removal_loop(_, _, _)
removal_loop(original_lines, ip_to_remove, domain_to_remove_lower) ==
    IF original_lines = <<>>
    THEN [lines_to_keep |-> <<>>, entry_found_and_removed |-> FALSE]
    ELSE removal_step(Head(original_lines),
                      _process_line_for_removal(Head(original_lines), ip_to_remove,
                                                domain_to_remove_lower),
                      removal_loop(Tail(original_lines), ip_to_remove,
                                   domain_to_remove_lower))

\* After the loop: ALREADY_EXISTS without writing when nothing was removed.
remove_decide(l) ==
    IF ~l.entry_found_and_removed
    THEN [status |-> "ALREADY_EXISTS", write |-> FALSE, lines |-> l.lines_to_keep]
    ELSE [status |-> "SUCCESS", write |-> TRUE, lines |-> l.lines_to_keep]

\* The plan of _remove_hosts_entry_direct for the lines read: the status decided
\* before writing, whether the writer is called, and with which lines.
remove_plan(original_lines, entry_to_remove) ==
    LET ip_domain_parts == split_maxsplit1(entry_to_remove)
    IN  IF Len(ip_domain_parts) # 2
        THEN [status |-> "ERROR_INTERNAL", write |-> FALSE, lines |-> <<>>]
        ELSE remove_decide(removal_loop(original_lines, ip_domain_parts[1],
                                        lower(ip_domain_parts[2])))

\* One pass of the loop of _update_hosts_file_content_direct: r is what
\* _process_line_for_update returned, rest the result of the passes after it.
update_step(r, rest, delete) ==
    [lines_to_keep |->
        (IF ~r.none THEN <<r.content>> ELSE <<>>) \o rest.lines_to_keep,
     made_change_to_file_content |->
        r.modified \/ rest.made_change_to_file_content,
     target_entry_correctly_exists |->
        (r.correct /\ ~delete) \/ rest.target_entry_correctly_exists]

RECURSIVE update_loop(_, _, _, _)
update_loop(original_lines, staging_ip, sanitized_domain, delete) ==
    IF original_lines = <<>>
    THEN [lines_to_keep |-> <<>>, made_change_to_file_content |-> FALSE,
          target_entry_correctly_exists |-> FALSE]
    ELSE update_step(_process_line_for_update(Head(original_lines), staging_ip,
                                              sanitized_domain,
                                              lower(sanitized_domain), delete),
                     update_loop(Tail(original_lines), staging_ip, sanitized_domain,
                                 delete),
                     delete)

\* After the loop: the status, the appended entry, and whether to write.
update_decide(l, staging_ip, sanitized_domain, delete) ==
    LET new_entry_line == staging_ip \o <<" ">> \o strip(sanitized_domain) \o <<NL>>
    IN  IF delete
        THEN [status |-> IF l.made_change_to_file_content
                         THEN "SUCCESS" ELSE "ALREADY_EXISTS",
              write |-> l.made_change_to_file_content, lines |-> l.lines_to_keep]
        ELSE IF ~l.target_entry_correctly_exists
        THEN [status |-> "SUCCESS", write |-> TRUE,
              lines |-> Append(l.lines_to_keep, new_entry_line)]
        ELSE [status |-> IF l.made_change_to_file_content
                         THEN "SUCCESS" ELSE "ALREADY_EXISTS",
              write |-> l.made_change_to_file_content, lines |-> l.lines_to_keep]

\* The plan of _update_hosts_file_content_direct for the lines read: the status
\* decided before writing, whether the writer is called, and with which lines.
update_plan(original_lines, staging_ip, sanitized_domain, delete) ==
    update_decide(update_loop(original_lines, staging_ip, sanitized_domain, delete),
                  staging_ip, sanitized_domain, delete)

\* str.splitlines(): lines without their terminators.
RECURSIVE splitlines(_)
splitlines(content) ==
    LET n == FirstIn(content, {NL})
    IN  IF content = <<>> THEN <<>>
        ELSE IF n = 0 THEN <<content>>
        ELSE <<SubSeq(content, 1, n - 1)>>
             \o splitlines(SubSeq(content, n + 1, Len(content)))

----------------------------------------------------------------------------
(* State.                                                                  *)

VARIABLES
    hosts,          \* content of HOSTS_FILE, a str
    hostsExists,    \* whether HOSTS_FILE exists
    tmp,            \* content of the writer's temporary file
    tmpExists,      \* whether the temporary file exists under its name
    is_flatpak,     \* HostsFileEdit.is_flatpak, set by __init__
    current_os,     \* platform.system()
    pc,             \* where the running public operation stands ("idle": none)
    ctx,            \* who runs the direct operation: "direct" (caller) or "helper"
    op,             \* the public operation and its arguments
    plan,           \* lines_to_keep and current_status of the direct operation
    wret,           \* the (Status, message) the writer is about to return
    strategy,       \* escalation in use: "none", "flatpak", "macos", "linux"
    stdout,         \* what the helper printed
    ret,            \* what the last public operation returned or raised
    opsLeft,        \* public operations the run may still start
    faultsLeft,     \* failures the environment may still inject
    file0,          \* history: hosts content when the operation was called
    writer_calls,   \* history: calls of _write_lines_to_hosts_file in this operation
    spawned,        \* history: calls of subprocess.run in this operation
    direct_status,  \* history: status returned by the direct attempt, or "none"
    prev,           \* history: the operation before this one and its outcome
    proc,           \* the child of subprocess.run: how it started and how it ended
    attempts,       \* history: reads of HOSTS_FILE by the caller in this operation
    hostsStat,      \* mode, uid and gid of HOSTS_FILE (NoStat while it is missing)
    tmpStat,        \* mode, uid and gid of the temporary file (NoStat without one)
    original,       \* the writer's original_mode, original_uid, original_gid
    hostsStat0,     \* history: hostsStat when the operation was called
    raised,         \* history: "ok" or the exception of the last file-system call
    osascript       \* the macOS command line on its way from cmd_args to the helper

vars ==
    <<hosts, hostsExists, tmp, tmpExists, is_flatpak, current_os, pc, ctx, op, plan, wret,
      strategy, stdout, ret, opsLeft, faultsLeft, file0, writer_calls, spawned,
      direct_status, prev, proc, attempts, hostsStat, tmpStat, original, hostsStat0,
      raised, osascript>>

----------------------------------------------------------------------------
(* Inputs.                                                                 *)

IPs == {<<"1">>, <<"2">>}
Domains == {<<"a">>, <<"A">>}

\* Hosts-file lines (without terminator) the initial files are made of.
LineMenu ==
    {<<"1", " ", "a">>,                             \* one host
     <<"2", " ", "A", " ", "b", " ", "#", "c">>,    \* two hosts and a comment
     <<"1", " ", "b", " ", "A">>,                   \* two hosts, no comment
     <<"1", " ", "a", " ", "#">>,                   \* as the mutator rewrites a line
     <<"2", " ", "b">>,                             \* another domain
     <<"#", "c">>,                                  \* comment only
     <<" ", "1", " ">>,                             \* a lone IP inside whitespace
     <<>>}                                          \* blank

RECURSIVE FilesOfLines(_)
FilesOfLines(n) ==
    IF n = 0 THEN {<<>>}
    ELSE LET shorter == FilesOfLines(n - 1)
         IN  shorter \cup {f \o l \o <<NL>> : f \in shorter, l \in LineMenu}

\* A file, or the same file with its last line unterminated.
WithUnterminated(files) ==
    files \cup {SubSeq(f, 1, Len(f) - 1) : f \in {g \in files : g # <<>>}}

Files == WithUnterminated(FilesOfLines(MaxLines))

\* Two more lines for the small files: a comment that begins with a second
\* '#', and a comment line with a ':' after its first whitespace.
SpecialLines ==
    {<<"1", " ", "a", " ", "b", " ", "#", "#", "c">>,
     <<"#", " ", "c", ":">>}

\* The files on which runs of several operations, and runs with failures, start.
SmallFiles ==
    {<<>>, <<"2", " ", "b">>} \cup {l \o <<NL>> : l \in LineMenu \cup SpecialLines}

NoOp ==
    [type |-> "none", staging_ip |-> <<>>, sanitized_domain |-> <<>>,
     delete |-> FALSE, entry_to_remove |-> <<>>]
UpdateOp(ip, domain, delete) ==
    [type |-> "update", staging_ip |-> ip, sanitized_domain |-> domain,
     delete |-> delete, entry_to_remove |-> <<>>]
RemoveOp(entry) == [NoOp EXCEPT !.type = "remove", !.entry_to_remove = entry]
ReadOp(type) == [NoOp EXCEPT !.type = type]

\* "IP DOMAIN" strings, and one that is not of that form.
Entries == {ip \o <<" ">> \o d : ip \in IPs, d \in Domains} \cup {<<"1">>}

\* Values of platform.system(): the two the dispatcher knows, and another.
Platforms == {"Linux", "Darwin", "Windows"}

NoPlan == [status |-> "none", write |-> FALSE, lines |-> <<>>]
\* What a public operation gave its caller: nothing yet, a (Status, message)
\* tuple, a (Status, list of lines) tuple, or an exception.
NoRet == [kind |-> "none", status |-> "none", msg |-> <<>>, content |-> <<>>]
Return(status, msg) ==
    [kind |-> "return", status |-> status, msg |-> msg, content |-> <<>>]
ReturnContent(status, content_lines) ==
    [kind |-> "return", status |-> status, msg |-> <<>>, content |-> content_lines]
Raise(exception) ==
    [kind |-> "raise", status |-> "none", msg |-> <<exception>>, content |-> <<>>]

\* No child process: subprocess.run was not called.  launch is how the call
\* went ("ok": the child started), returncode is -1 until the child exits.
NoProc == [launch |-> "none", returncode |-> -1, stderr_says_cancelled |-> FALSE]

\* The st_mode permission bits (as a number), st_uid and st_gid of a file;
\* NoStat stands for a file that is not there and for locals still None.
NoStat == [mode |-> 0, uid |-> -1, gid |-> -1]

\* original_uid, original_gid = 0, 0 and original_mode = 0o644 (420).
DefaultStat == [mode |-> 420, uid |-> 0, gid |-> 0]

\* What os.stat(HOSTS_FILE) may find: root's 0o644 file, or a file of mode
\* 0o664 (436) that belongs to the user and another group.
TargetStats == {DefaultStat, [mode |-> 436, uid |-> 1000, gid |-> 4]}

\* No osascript command: cmd_args is the list _build_macos_command_args
\* returned, script the AppleScript text given to osascript -e, command the
\* string do shell script hands to /bin/sh, argv what the helper is started
\* with.
NoScript == [cmd_args |-> <<>>, script |-> <<>>, command |-> <<>>, argv |-> <<>>]

\* The user the process runs as: root in the helper, the caller otherwise.
euid(who) == IF who = "helper" THEN 0 ELSE 1000

\* tempfile.mkstemp creates the file with mode 0o600 (384) for the process's
\* user and group.
mkstemp_stat(who) == [mode |-> 384, uid |-> euid(who), gid |-> euid(who)]

----------------------------------------------------------------------------
(* Initial states: the hosts file is there with some content, no operation *)
(* is running.  A run is one operation on a file of up to MaxLines lines,  *)
(* or up to MaxOps operations on a small file, or one operation on a small *)
(* file in an environment that injects up to MaxFaults failures.  The file *)
(* is root's with mode 0o644; on Linux outside Flatpak the one operation   *)
(* with failures also meets a file of another owner and mode.              *)

Init ==
    /\ \/ /\ hosts \in Files
          /\ hostsExists = TRUE /\ hostsStat = DefaultStat
          /\ opsLeft = 1 /\ faultsLeft = 0
          /\ is_flatpak = FALSE /\ current_os = "Linux"
       \/ /\ hosts \in SmallFiles
          /\ hostsExists = TRUE /\ hostsStat = DefaultStat
          /\ opsLeft = MaxOps /\ faultsLeft = 0
          /\ is_flatpak = FALSE /\ current_os = "Linux"
       \/ /\ hosts \in SmallFiles
          /\ hostsExists = TRUE
          /\ opsLeft = 1 /\ faultsLeft = MaxFaults
          /\ \/ /\ hostsStat = DefaultStat
                /\ is_flatpak \in BOOLEAN /\ current_os \in Platforms
             \/ /\ hostsStat \in TargetStats
                /\ is_flatpak = FALSE /\ current_os = "Linux"
       \/ /\ hosts = <<>>
          /\ hostsExists = FALSE /\ hostsStat = NoStat
          /\ opsLeft = 1 /\ faultsLeft = MaxFaults
          /\ is_flatpak \in BOOLEAN /\ current_os \in Platforms
    /\ tmp = <<>> /\ tmpExists = FALSE
    /\ pc = "idle" /\ ctx = "direct"
    /\ op = NoOp /\ plan = NoPlan /\ wret = NoRet
    /\ strategy = "none" /\ stdout = <<>> /\ ret = NoRet
    /\ file0 = hosts
    /\ writer_calls = 0 /\ spawned = 0 /\ direct_status = "none"
    /\ prev = [op |-> NoOp, ret |-> NoRet]
    /\ proc = NoProc /\ attempts = 0
    /\ tmpStat = NoStat /\ original = NoStat /\ hostsStat0 = hostsStat
    /\ raised = "ok" /\ osascript = NoScript

----------------------------------------------------------------------------
(* The environment: what a system call may do.                             *)

\* A call succeeds, or raises one of `errors` while failures may be injected.
Outcomes(errors) == {"ok"} \cup (IF faultsLeft > 0 THEN errors ELSE {})

\* open(HOSTS_FILE, "r") and the read: FileNotFoundError exactly when the file
\* is missing.
OpenOutcomes ==
    IF hostsExists THEN Outcomes({"PermissionError", "OSError", "Exception"})
    ELSE {"FileNotFoundError"}

Charge(e) ==
    /\ faultsLeft' = IF e \in {"ok", "FileNotFoundError"} THEN faultsLeft ELSE faultsLeft - 1
    /\ raised' = e

----------------------------------------------------------------------------
(* The direct operations: _update_hosts_file_content_direct and            *)
(* _remove_hosts_entry_direct, run by the caller or by a helper.           *)

\* The except clauses around open()/readlines().
read_error(e) ==
    CASE e = "FileNotFoundError" ->
            Return("ERROR_NOT_FOUND", <<"Error reading hosts", ":", " File not found.">>)
      [] e = "PermissionError" ->
            Return("ERROR_PERMISSION", <<"Permission denied reading hosts.">>)
      [] e = "OSError" ->
            Return("ERROR_IO", <<"I/O error reading hosts", ":", " e">>)
      [] OTHER ->
            Return("ERROR_INTERNAL", <<"Unexpected error reading hosts", ":", " e">>)

\* DirectReturn with the dispatcher escalating on ERROR_IO as well.
DirectReturn_escalates_on_io(who, status, msg) ==
    IF who = "direct"
    THEN /\ direct_status' = status
         /\ stdout' = <<>>
         /\ proc' = NoProc
         /\ IF status \in {"ERROR_PERMISSION", "ERROR_IO"}
            THEN pc' = "escalate" /\ ret' = NoRet
            ELSE pc' = "idle" /\ ret' = Return(status, msg)
    ELSE /\ stdout' = <<status, ":">> \o msg \o <<NL>>
         /\ proc' = [proc EXCEPT !.returncode = 0]
         /\ pc' = "decode"
         /\ UNCHANGED <<ret, direct_status>>

\* DirectReturn with the helper's exit code telling failure: 1 for every
\* status but SUCCESS and ALREADY_EXISTS.
DirectReturn_exits_by_status(who, status, msg) ==
    IF who = "direct"
    THEN /\ direct_status' = status
         /\ stdout' = <<>>
         /\ proc' = NoProc
         /\ IF status = "ERROR_PERMISSION"
            THEN pc' = "escalate" /\ ret' = NoRet
            ELSE pc' = "idle" /\ ret' = Return(status, msg)
    ELSE /\ stdout' = <<status, ":">> \o msg \o <<NL>>
         /\ proc' = [proc EXCEPT !.returncode =
                         IF status \in {"SUCCESS", "ALREADY_EXISTS"} THEN 0 ELSE 1]
         /\ pc' = "decode"
         /\ UNCHANGED <<ret, direct_status>>

\* The direct operation returns (status, msg) to who called it: the caller's
\* _execute_operation, which returns it unless it is ERROR_PERMISSION, or the
\* helper's main(), which prints "NAME:message" and exits 0.
DirectReturn(who, status, msg) ==
    IF who = "direct"
    THEN /\ direct_status' = status
         /\ stdout' = <<>>
         /\ proc' = NoProc
         /\ IF status = "ERROR_PERMISSION"
            THEN pc' = "escalate" /\ ret' = NoRet
            ELSE pc' = "idle" /\ ret' = Return(status, msg)
    ELSE /\ stdout' = <<status, ":">> \o msg \o <<NL>>
         /\ proc' = [proc EXCEPT !.returncode = 0]
         /\ pc' = "decode"
         /\ UNCHANGED <<ret, direct_status>>

\* The message the direct operation returns with the status it decided itself.
direct_msg(o, status) ==
    CASE status = "ALREADY_EXISTS" -> <<"No changes made.">>
      [] status = "SUCCESS" /\ o.type = "remove" -> <<"Successfully removed entry.">>
      [] status = "SUCCESS" /\ o.delete -> <<"Successfully removed entries.">>
      [] status = "SUCCESS" -> <<"Updated hosts", ":", " Set domain to ip.">>
      [] OTHER -> <<"Invalid format for entry_to_remove", ":", " entry.">>

direct_plan(o, original_lines) ==
    IF o.type = "update"
    THEN update_plan(original_lines, o.staging_ip, o.sanitized_domain, o.delete)
    ELSE remove_plan(original_lines, o.entry_to_remove)

\* From the call of the direct operation `o` to its return or to its call of
\* _write_lines_to_hosts_file: the file is read once, the lines transformed.
\* The lines are transformed (pl): the writer is called when something
\* changed, else the status decided is returned.
DirectPlanned(who, o, pl, calls) ==
    IF pl.write
    THEN /\ plan' = pl
         /\ writer_calls' = calls + 1
         /\ pc' = "w_stat"
         /\ IF who = "direct"
            THEN ret' = NoRet /\ stdout' = <<>> /\ direct_status' = "none" /\ proc' = NoProc
            ELSE UNCHANGED <<ret, stdout, direct_status, proc>>
    ELSE /\ DirectReturn(who, pl.status, direct_msg(o, pl.status))
         /\ plan' = NoPlan
         /\ writer_calls' = calls

DirectFailed(who, r, calls) ==
    /\ DirectReturn(who, r.status, r.msg)
    /\ plan' = NoPlan
    /\ writer_calls' = calls

DirectBegin(who, o, calls) ==
    \E e \in OpenOutcomes :
        /\ Charge(e)
        /\ IF e # "ok"
           THEN DirectFailed(who, read_error(e), calls)
           ELSE DirectPlanned(who, o, direct_plan(o, readlines(hosts)), calls)

\* What every public call sets up.
Call(o) ==
    /\ pc = "idle"
    /\ opsLeft > 0
    /\ opsLeft' = opsLeft - 1
    /\ op' = o
    /\ ctx' = "direct"
    /\ strategy' = "none"
    /\ wret' = NoRet
    /\ file0' = hosts
    /\ spawned' = 0
    /\ attempts' = 1
    /\ prev' = [op |-> op, ret |-> ret]
    /\ hostsStat0' = hostsStat
    /\ UNCHANGED <<hosts, hostsExists, tmp, tmpExists, is_flatpak, current_os,
                   hostsStat, tmpStat, original, osascript>>

\* HostsFileEdit.update_hosts_file_content
update_hosts_file_content ==
    \E staging_ip \in IPs, sanitized_domain \in Domains, delete \in BOOLEAN :
        /\ Call(UpdateOp(staging_ip, sanitized_domain, delete))
        /\ DirectBegin("direct", UpdateOp(staging_ip, sanitized_domain, delete), 0)

\* HostsFileEdit.remove_hosts_entry
remove_hosts_entry ==
    \E entry_to_remove \in Entries :
        /\ Call(RemoveOp(entry_to_remove))
        /\ DirectBegin("direct", RemoveOp(entry_to_remove), 0)

----------------------------------------------------------------------------
(* The atomic writer: HostsFileEdit._write_lines_to_hosts_file, one action *)
(* per system call.  Each exception is mapped by the except clauses; the   *)
(* finally clause runs last.                                               *)

WriterPcs == {"w_stat", "w_mkstemp", "w_write", "w_meta", "w_replace", "w_finally"}

\* except PermissionError / except IOError / except Exception
write_error(e) ==
    CASE e = "PermissionError" ->
            Return("ERROR_PERMISSION", <<"Permission denied during update of hosts.">>)
      [] e = "OSError" ->
            Return("ERROR_IO", <<"I/O error updating hosts", ":", " e">>)
      [] OTHER ->
            Return("ERROR_INTERNAL", <<"Unexpected error updating hosts", ":", " e">>)

WriterErrors == {"PermissionError", "OSError", "Exception"}

\* An exception leaves the try block: its status is kept for the return and
\* control goes to the finally clause.
WriterFails(e) ==
    /\ wret' = write_error(e)
    /\ pc' = "w_finally"

\* os.stat(HOSTS_FILE); a missing file is not an error (defaults are used).
w_stat ==
    /\ pc = "w_stat"
    /\ \E e \in Outcomes(WriterErrors) :
        /\ Charge(e)
        /\ IF e = "ok"
           THEN /\ original' = IF hostsExists THEN hostsStat ELSE DefaultStat
                /\ pc' = "w_mkstemp" /\ wret' = wret
           ELSE /\ WriterFails(e)
                /\ original' = original
    /\ UNCHANGED <<hostsStat, tmpStat, hostsStat0, osascript>>
    /\ UNCHANGED <<hosts, hostsExists, tmp, tmpExists, is_flatpak, current_os, ctx, op, plan,
                   strategy, stdout, ret, opsLeft, file0, writer_calls, spawned,
                   direct_status, prev,
                   proc, attempts>>

\* tempfile.mkstemp(dir=hosts_dir)
w_mkstemp ==
    /\ pc = "w_mkstemp"
    /\ \E e \in Outcomes(WriterErrors) :
        /\ Charge(e)
        /\ IF e = "ok"
           THEN /\ tmpExists' = TRUE /\ tmp' = <<>>
                /\ tmpStat' = mkstemp_stat(ctx)
                /\ pc' = "w_write" /\ wret' = wret
           ELSE /\ WriterFails(e)
                /\ UNCHANGED <<tmp, tmpExists, tmpStat>>
    /\ UNCHANGED <<hostsStat, original, hostsStat0, osascript>>
    /\ UNCHANGED <<hosts, hostsExists, is_flatpak, current_os, ctx, op, plan, strategy, stdout,
                   ret, opsLeft, file0, writer_calls, spawned, direct_status, prev,
                   proc, attempts>>

\* The text after writelines(lines_to_write) and close(); what reaches the
\* disk when the write fails is some prefix of it.
temp_file_text(lines_to_write) == writelines(lines_to_write)

\* w_write with the lines written to HOSTS_FILE itself, not to the temporary
\* file.
w_write_in_place ==
    /\ pc = "w_write"
    /\ \E e \in Outcomes(WriterErrors) :
        /\ Charge(e)
        /\ IF e = "ok"
           THEN /\ hosts' = temp_file_text(plan.lines)
                /\ pc' = "w_meta" /\ wret' = wret
           ELSE /\ \E k \in 0..Len(temp_file_text(plan.lines)) :
                     hosts' = SubSeq(temp_file_text(plan.lines), 1, k)
                /\ WriterFails(e)
    /\ tmp' = hosts'
    /\ UNCHANGED <<hostsStat, tmpStat, original, hostsStat0, osascript>>
    /\ UNCHANGED <<hostsExists, tmpExists, is_flatpak, current_os, ctx, op, plan, strategy,
                   stdout, ret, opsLeft, file0, writer_calls, spawned, direct_status,
                   prev,
                   proc, attempts>>

\* with os.fdopen(fd, "w") as tmp_f: tmp_f.writelines(lines_to_write)
w_write ==
    /\ pc = "w_write"
    /\ \E e \in Outcomes(WriterErrors) :
        /\ Charge(e)
        /\ IF e = "ok"
           THEN /\ tmp' = temp_file_text(plan.lines)
                /\ pc' = "w_meta" /\ wret' = wret
           ELSE /\ \E k \in 0..Len(temp_file_text(plan.lines)) :
                     tmp' = SubSeq(temp_file_text(plan.lines), 1, k)
                /\ WriterFails(e)
    /\ UNCHANGED <<hostsStat, tmpStat, original, hostsStat0, osascript>>
    /\ UNCHANGED <<hosts, hostsExists, tmpExists, is_flatpak, current_os, ctx, op, plan, strategy,
                   stdout, ret, opsLeft, file0, writer_calls, spawned, direct_status,
                   prev,
                   proc, attempts>>

\* os.chown(temp, original_uid, original_gid) failed and left the temporary
\* file as it was, or os.chmod(temp, original_mode) failed after the owner
\* was set.
chown_chmod_failed ==
    {tmpStat, [tmpStat EXCEPT !.uid = original.uid, !.gid = original.gid]}

\* except OSError as e_meta: the writer returns from inside the try block.
meta_error ==
    Return("ERROR_IO", <<"Failed to set correct permissions/ownership", ":", " e">>)

\* w_meta with a failure of chown/chmod logged and passed over: the writer
\* goes on to os.replace.
w_meta_ignores_failure ==
    /\ pc = "w_meta"
    /\ \E e \in Outcomes({"PermissionError", "OSError"}) :
        /\ Charge(e)
        /\ IF e = "ok" THEN tmpStat' = original ELSE tmpStat' \in chown_chmod_failed
        /\ pc' = "w_replace" /\ wret' = wret
    /\ UNCHANGED <<hostsStat, original, hostsStat0, osascript>>
    /\ UNCHANGED <<hosts, hostsExists, tmp, tmpExists, is_flatpak, current_os, ctx, op, plan,
                   strategy, stdout, ret, opsLeft, file0, writer_calls, spawned,
                   direct_status, prev, proc, attempts>>

\* w_meta without the os.chmod: the temporary file gets the owner captured
\* and keeps the mode mkstemp gave it.
w_meta_chown_only ==
    /\ pc = "w_meta"
    /\ \E e \in Outcomes({"PermissionError", "OSError"}) :
        /\ Charge(e)
        /\ IF e = "ok"
           THEN /\ tmpStat' = [tmpStat EXCEPT !.uid = original.uid, !.gid = original.gid]
                /\ pc' = "w_replace" /\ wret' = wret
           ELSE /\ tmpStat' = tmpStat
                /\ wret' = meta_error /\ pc' = "w_finally"
    /\ UNCHANGED <<hostsStat, original, hostsStat0, osascript>>
    /\ UNCHANGED <<hosts, hostsExists, tmp, tmpExists, is_flatpak, current_os, ctx, op, plan,
                   strategy, stdout, ret, opsLeft, file0, writer_calls, spawned,
                   direct_status, prev, proc, attempts>>

\* os.chown / os.chmod on the temporary file.  The two calls raise OSError or
\* a subclass of it (PermissionError is one), which except OSError turns into
\* ERROR_IO; the finally clause runs next.
w_meta ==
    /\ pc = "w_meta"
    /\ \E e \in Outcomes({"PermissionError", "OSError"}) :
        /\ Charge(e)
        /\ IF e = "ok"
           THEN /\ tmpStat' = original
                /\ pc' = "w_replace" /\ wret' = wret
           ELSE /\ tmpStat' \in chown_chmod_failed
                /\ wret' = meta_error /\ pc' = "w_finally"
    /\ UNCHANGED <<hostsStat, original, hostsStat0, osascript>>
    /\ UNCHANGED <<hosts, hostsExists, tmp, tmpExists, is_flatpak, current_os, ctx, op, plan,
                   strategy, stdout, ret, opsLeft, file0, writer_calls, spawned,
                   direct_status, prev, proc, attempts>>

\* os.replace(temp_file_path, HOSTS_FILE): the rename puts the temporary file's
\* content under the target's name in one step.
replace_target ==
    /\ hosts' = tmp
    /\ hostsExists' = TRUE
    /\ tmp' = <<>>
    /\ tmpExists' = FALSE
    /\ hostsStat' = tmpStat
    /\ tmpStat' = NoStat

w_replace ==
    /\ pc = "w_replace"
    /\ \E e \in Outcomes(WriterErrors) :
        /\ Charge(e)
        /\ IF e = "ok"
           THEN /\ replace_target
                /\ wret' = Return("SUCCESS", <<"Successfully updated hosts.">>)
                /\ pc' = "w_finally"
           ELSE /\ WriterFails(e)
                /\ UNCHANGED <<hosts, hostsExists, tmp, tmpExists, hostsStat, tmpStat>>
    /\ UNCHANGED <<original, hostsStat0, osascript>>
    /\ UNCHANGED <<is_flatpak, current_os, ctx, op, plan, strategy, stdout, ret, opsLeft, file0,
                   writer_calls, spawned, direct_status, prev,
                   proc, attempts>>

\* w_finally without the os.remove: the finally clause leaves the temporary
\* file where it is.
w_finally_without_remove ==
    /\ pc = "w_finally"
    /\ \E e \in (IF tmpExists THEN Outcomes({"OSError"}) ELSE {"ok"}) :
        /\ Charge(e)
        /\ UNCHANGED <<tmp, tmpExists, tmpStat>>
    /\ original' = NoStat
    /\ UNCHANGED <<hostsStat, hostsStat0, osascript>>
    /\ IF wret.status # "SUCCESS"
       THEN DirectReturn(ctx, wret.status, wret.msg)
       ELSE DirectReturn(ctx, plan.status, direct_msg(op, plan.status))
    /\ wret' = NoRet
    /\ plan' = NoPlan
    /\ UNCHANGED <<hosts, hostsExists, is_flatpak, current_os, ctx, op, strategy, opsLeft, file0,
                   writer_calls, spawned, prev,
                   attempts>>

\* finally: os.remove(temp_file_path) when the file is still there (an OSError
\* of the removal is logged and dropped); then the writer returns, and the
\* direct operation returns the writer's status unless it is SUCCESS.
w_finally ==
    /\ pc = "w_finally"
    /\ \E e \in (IF tmpExists THEN Outcomes({"OSError"}) ELSE {"ok"}) :
        /\ Charge(e)
        /\ IF tmpExists /\ e = "ok"
           THEN tmpExists' = FALSE /\ tmp' = <<>> /\ tmpStat' = NoStat
           ELSE UNCHANGED <<tmp, tmpExists, tmpStat>>
    /\ original' = NoStat
    /\ UNCHANGED <<hostsStat, hostsStat0, osascript>>
    /\ IF wret.status # "SUCCESS"
       THEN DirectReturn(ctx, wret.status, wret.msg)
       ELSE DirectReturn(ctx, plan.status, direct_msg(op, plan.status))
    /\ wret' = NoRet
    /\ plan' = NoPlan
    /\ UNCHANGED <<hosts, hostsExists, is_flatpak, current_os, ctx, op, strategy, opsLeft, file0,
                   writer_calls, spawned, prev,
                   attempts>>

\* The process running the writer is killed between two system calls.
Kill ==
    /\ pc \in WriterPcs
    /\ faultsLeft > 0
    /\ faultsLeft' = faultsLeft - 1
    /\ raised' = raised
    /\ pc' = "killed"
    /\ UNCHANGED <<hostsStat, tmpStat, original, hostsStat0, osascript>>
    /\ UNCHANGED <<hosts, hostsExists, tmp, tmpExists, is_flatpak, current_os, ctx, op, plan, wret,
                   strategy, stdout, ret, opsLeft, file0, writer_calls, spawned,
                   direct_status, prev,
                   proc, attempts>>

----------------------------------------------------------------------------
(* Reading: read_hosts_file_content and read_hosts_file_content_privileged. *)

ReadOps == {"read", "read_privileged"}

\* The operation_type string handed to the _run_* functions.
operation_type(o) == IF o.type \in ReadOps THEN "read" ELSE o.type

\* The except clauses of read_hosts_file_content and _read_hosts_file_direct.
read_direct_error(e) ==
    CASE e = "FileNotFoundError" ->
            Return("ERROR_NOT_FOUND", <<"Error reading hosts", ":", " File not found.">>)
      [] e = "PermissionError" ->
            Return("ERROR_PERMISSION", <<"Permission denied reading hosts.">>)
      [] e = "OSError" ->
            Return("ERROR_IO", <<"I/O error reading hosts directly", ":", " e">>)
      [] OTHER ->
            Return("ERROR_INTERNAL", <<"Unexpected error reading hosts directly", ":", " e">>)

\* _read_hosts_file_direct and what read_hosts_file_content_privileged does
\* with its result: SUCCESS and every error but ERROR_PERMISSION are returned.
ReadDirect ==
    /\ \E e \in OpenOutcomes :
        /\ Charge(e)
        /\ IF e = "ok"
           THEN /\ direct_status' = "SUCCESS"
                /\ ret' = ReturnContent("SUCCESS", splitlines(hosts))
                /\ pc' = "idle"
                /\ stdout' = <<>>
                /\ proc' = NoProc
           ELSE DirectReturn("direct", read_direct_error(e).status,
                             read_direct_error(e).msg)
    /\ plan' = NoPlan
    /\ writer_calls' = 0

\* HostsFileEdit.read_hosts_file_content: a PermissionError of its own read
\* hands over to read_hosts_file_content_privileged.
read_hosts_file_content ==
    /\ Call(ReadOp("read"))
    /\ \E e \in OpenOutcomes :
        /\ Charge(e)
        /\ IF e = "ok"
           THEN pc' = "idle" /\ ret' = ReturnContent("SUCCESS", splitlines(hosts))
           ELSE IF e = "PermissionError"
           THEN pc' = "read_privileged" /\ ret' = NoRet
           ELSE pc' = "idle" /\ ret' = read_direct_error(e)
    /\ direct_status' = "none"
    /\ stdout' = <<>>
    /\ proc' = NoProc
    /\ plan' = NoPlan
    /\ writer_calls' = 0

\* The call of read_hosts_file_content_privileged made by
\* read_hosts_file_content after its PermissionError.
read_hosts_file_content_fallback ==
    /\ pc = "read_privileged"
    /\ attempts' = attempts + 1
    /\ ReadDirect
    /\ UNCHANGED <<hostsStat, tmpStat, original, hostsStat0, osascript>>
    /\ UNCHANGED <<hosts, hostsExists, tmp, tmpExists, is_flatpak, current_os, ctx, op,
                   wret, strategy, opsLeft, file0, spawned, prev>>

\* HostsFileEdit.read_hosts_file_content_privileged
read_hosts_file_content_privileged ==
    /\ Call(ReadOp("read_privileged"))
    /\ ReadDirect

----------------------------------------------------------------------------
(* The dispatcher after ERROR_PERMISSION: _execute_operation and the tail  *)
(* of read_hosts_file_content_privileged choose the escalation, the        *)
(* _run_* function builds the command and calls subprocess.run.            *)

\* EscalationStrategy with pkexec tried on every platform that is not macOS.
EscalationStrategy_defaults_to_pkexec ==
    IF is_flatpak /\ current_os = "Linux" THEN "flatpak"
    ELSE IF current_os = "Darwin" THEN "macos"
    ELSE "linux"

EscalationStrategy ==
    IF is_flatpak /\ current_os = "Linux" THEN "flatpak"
    ELSE IF current_os = "Darwin" THEN "macos"
    ELSE IF current_os = "Linux" THEN "linux"
    ELSE "none"

\* The public operation returns r.
Finish(r) ==
    /\ pc' = "idle"
    /\ ret' = r

\* except FileNotFoundError of the three _run_* functions: the handler of
\* _run_linux_elevated formats a message with helper_path, a name that is not
\* defined in that function.
tool_not_found(strat) ==
    IF strat = "linux"
    THEN Raise("NameError")
    ELSE IF strat = "flatpak"
    THEN Return("ERROR_INTERNAL", <<"flatpak-spawn command not found.">>)
    ELSE Return("ERROR_INTERNAL", <<"osascript command not found.">>)

\* subprocess.run(cmd, ...): the process starts, or the call raises.
Spawn(strat) ==
    /\ spawned' = spawned + 1
    /\ \E e \in Outcomes({"FileNotFoundError", "Exception"}) :
        /\ faultsLeft' = IF e = "ok" THEN faultsLeft ELSE faultsLeft - 1
        /\ raised' = raised
        /\ proc' = [NoProc EXCEPT !.launch = e]
        /\ IF e = "ok" THEN pc' = "running" /\ ret' = NoRet
           ELSE IF e = "FileNotFoundError" THEN Finish(tool_not_found(strat))
           ELSE Finish(Return("ERROR_INTERNAL", <<"Error executing the command", ":", " e">>))

\* _build_macos_command_args returns an error tuple instead of a command.
macos_args_error(o, script_exists) ==
    IF ~script_exists
    THEN Return("ERROR_INTERNAL", <<"macOS helper script not found at configured path.">>)
    ELSE IF o.type = "remove" /\ Len(split_maxsplit1(o.entry_to_remove)) # 2
    THEN Return("ERROR_INTERNAL", <<"Invalid format for entry_to_remove for macOS helper.">>)
    ELSE NoRet

Escalate ==
    /\ pc = "escalate"
    /\ strategy' = EscalationStrategy
    /\ IF EscalationStrategy = "none"
       THEN /\ Finish(Return("ERROR_INTERNAL",
                             <<"Automated privilege escalation not supported on this OS.">>))
            /\ UNCHANGED <<spawned, faultsLeft, raised, proc>>
       ELSE IF EscalationStrategy = "macos"
       THEN \E script_exists \in (IF faultsLeft > 0 THEN BOOLEAN ELSE {TRUE}) :
                IF macos_args_error(op, script_exists) # NoRet
                THEN /\ Finish(macos_args_error(op, script_exists))
                     /\ faultsLeft' = IF script_exists THEN faultsLeft ELSE faultsLeft - 1
                     /\ raised' = raised
                     /\ UNCHANGED <<spawned, proc>>
                ELSE Spawn("macos")
       ELSE Spawn(EscalationStrategy)
    /\ UNCHANGED <<hostsStat, tmpStat, original, hostsStat0, osascript>>
    /\ UNCHANGED <<hosts, hostsExists, tmp, tmpExists, is_flatpak, current_os, ctx, op,
                   plan, wret, stdout, opsLeft, file0, writer_calls, direct_status, prev,
                   attempts>>

----------------------------------------------------------------------------
(* The elevated helper: akstaging_root_helper.main /                       *)
(* akstaging_macos_helper.main with helper_cli.                            *)

\* str(kwargs.get("delete")).lower()
delete_str(delete) == IF delete THEN "true" ELSE "false"

\* helper_argv with --delete left at "false" whatever the caller asked for.
helper_argv_without_delete(o) ==
    IF o.type = "update"
    THEN [command |-> "update", ip |-> o.staging_ip, domain |-> o.sanitized_domain,
          delete |-> "false"]
    ELSE IF o.type = "remove"
    THEN [command |-> "remove",
          ip |-> IF Len(split_maxsplit1(o.entry_to_remove)) = 2
                 THEN split_maxsplit1(o.entry_to_remove)[1] ELSE <<>>,
          domain |-> IF Len(split_maxsplit1(o.entry_to_remove)) = 2
                     THEN split_maxsplit1(o.entry_to_remove)[2] ELSE o.entry_to_remove,
          delete |-> "false"]
    ELSE [command |-> "read", ip |-> <<>>, domain |-> <<>>, delete |-> "false"]

\* The arguments after the helper's path, as _build_linux_command,
\* _build_flatpak_command and _build_macos_command_args put them.
helper_argv(o) ==
    IF o.type = "update"
    THEN [command |-> "update", ip |-> o.staging_ip, domain |-> o.sanitized_domain,
          delete |-> delete_str(o.delete)]
    ELSE IF o.type = "remove"
    THEN [command |-> "remove",
          ip |-> IF Len(split_maxsplit1(o.entry_to_remove)) = 2
                 THEN split_maxsplit1(o.entry_to_remove)[1] ELSE <<>>,
          domain |-> IF Len(split_maxsplit1(o.entry_to_remove)) = 2
                     THEN split_maxsplit1(o.entry_to_remove)[2] ELSE o.entry_to_remove,
          delete |-> "false"]
    ELSE [command |-> "read", ip |-> <<>>, domain |-> <<>>, delete |-> "false"]

\* print(f"{status.name}:{message}")
print_status(status, msg) == <<status, ":">> \o msg \o <<NL>>

\* helper_cli.handle_read_command: the raw content, or STATUS:message.
handle_read_command ==
    \E e \in OpenOutcomes :
        /\ Charge(e)
        /\ stdout' =
             IF e = "ok" THEN hosts
             ELSE IF e = "FileNotFoundError"
             THEN print_status("ERROR_NOT_FOUND", <<"Error reading hosts file in helper", ":", " e">>)
             ELSE IF e = "PermissionError"
             THEN print_status("ERROR_PERMISSION", <<"Permission error reading hosts file", ":", " e">>)
             ELSE print_status("ERROR_INTERNAL", <<"Unexpected error reading hosts file", ":", " e">>)
        /\ proc' = [proc EXCEPT !.returncode = 0]
        /\ pc' = "decode"

\* main(): parse_common_arguments, then the direct operation with the
\* arguments of the command line.
HelperRuns(args) ==
    IF args.command \in {"update", "remove"} /\ (args.ip = <<>> \/ args.domain = <<>>)
    THEN /\ stdout' = print_status("ERROR_INTERNAL",
                                   <<"Error", ":", " Argument is required for update/remove.">>)
         /\ proc' = [proc EXCEPT !.returncode = 0]
         /\ pc' = "decode"
         /\ UNCHANGED <<plan, writer_calls, faultsLeft, raised, ret, direct_status>>
    ELSE IF args.command = "update"
    THEN DirectBegin("helper", UpdateOp(args.ip, args.domain, args.delete = "true"),
                     writer_calls)
    ELSE IF args.command = "remove"
    THEN DirectBegin("helper", RemoveOp(args.ip \o <<" ">> \o args.domain), writer_calls)
    ELSE /\ handle_read_command
         /\ UNCHANGED <<plan, writer_calls, ret, direct_status>>

HelperMain ==
    /\ pc = "running"
    /\ ctx' = "helper"
    /\ HelperRuns(helper_argv(op))
    /\ UNCHANGED <<hostsStat, tmpStat, original, hostsStat0, osascript>>
    /\ UNCHANGED <<hosts, hostsExists, tmp, tmpExists, is_flatpak, current_os, op, wret,
                   strategy, opsLeft, file0, spawned, prev,
                   attempts>>

----------------------------------------------------------------------------
(* Back in the _run_* function: the result of subprocess.run.              *)

\* ":" in output_str.splitlines()[0] if output_str else False
first_line_has_colon(output_str) ==
    output_str # <<>> /\ InSeq(":", splitlines(output_str)[1])

\* Index of the last element of s that is in set cs, or 0.
LastIn(s, cs) ==
    IF \E i \in 1..Len(s) : s[i] \in cs
    THEN CHOOSE i \in 1..Len(s) : s[i] \in cs /\ \A j \in (i + 1)..Len(s) : s[j] \notin cs
    ELSE 0

\* parse_status_line splitting at the last ':' (rsplit) and not at the first.
parse_status_line_at_last_colon(output_str) ==
    LET n == LastIn(output_str, {":"})
    IN  IF n = 2 /\ output_str[1] \in Status
        THEN Return(output_str[1], SubSeq(output_str, n + 1, Len(output_str)))
        ELSE Return("ERROR_INTERNAL", <<"Helper script returned unknown status.">>)

\* status_name, message_str = output_str.split(":", 1); Status[status_name]
parse_status_line(output_str) ==
    LET n == FirstIn(output_str, {":"})
    IN  IF n = 2 /\ output_str[1] \in Status
        THEN Return(output_str[1], SubSeq(output_str, n + 1, Len(output_str)))
        ELSE Return("ERROR_INTERNAL", <<"Helper script returned unknown status.">>)

\* Exit code 0: what the _run_* function returns for the helper's output.
decode_output(operation, output_str) ==
    IF operation = "read" /\ ~first_line_has_colon(output_str)
    THEN Return("SUCCESS", output_str)
    ELSE IF InSeq(":", output_str) THEN parse_status_line(output_str)
    ELSE IF operation # "read"
    THEN Return("ERROR_INTERNAL", <<"Helper script returned malformed output.">>)
    ELSE IF output_str = <<>> THEN Return("SUCCESS", <<>>)
    ELSE Return("ERROR_INTERNAL", <<"Helper 'read' returned unhandled non-empty output.">>)

\* What the public operation makes of the (status, text) of the _run_*
\* function: read_hosts_file_content_privileged splits the raw text in lines.
elevated_result(o, r) ==
    IF o.type \in ReadOps /\ r.status = "SUCCESS"
    THEN ReturnContent("SUCCESS", splitlines(r.msg))
    ELSE r

Decode ==
    /\ pc = "decode"
    /\ Finish(elevated_result(op, decode_output(operation_type(op), strip(stdout))))
    /\ UNCHANGED <<hostsStat, tmpStat, original, hostsStat0, osascript>>
    /\ UNCHANGED <<hosts, hostsExists, tmp, tmpExists, is_flatpak, current_os, ctx, op,
                   plan, wret, strategy, stdout, opsLeft, faultsLeft, raised, file0,
                   writer_calls, spawned, direct_status, prev,
                   proc, attempts>>

\* exit_status with the exit code of osascript left out of the test.
exit_status_by_markers_only(strat, returncode, stderr_says_cancelled, stdout_cleaned) ==
    IF stderr_says_cancelled
    THEN Return("USER_CANCELLED", <<"Operation cancelled.">>)
    ELSE IF strat = "macos" /\ InSeq(":", stdout_cleaned)
            /\ parse_status_line(stdout_cleaned).msg
                 # <<"Helper script returned unknown status.">>
    THEN Return(parse_status_line(stdout_cleaned).status,
                <<"osascript error but helper provided status", ":">>
                \o parse_status_line(stdout_cleaned).msg)
    ELSE Return("ERROR_INTERNAL", <<"Failed to perform the operation", ":", " stderr">>)

\* A non-zero exit code: the authentication was dismissed or refused, so the
\* helper did not run and printed nothing.  stderr_says_cancelled: stderr holds
\* one of the words the _run_* function looks for ("cancel", "authenticate",
\* "authorization"; flatpak also the PolicyKit NotAuthorized error name;
\* osascript "User cancelled", "(-128)").  pkexec and flatpak-spawn: such a
\* word gives USER_CANCELLED; osascript: that, or exit code 1, and otherwise a
\* status line on stdout gives its status.  Else ERROR_INTERNAL with stderr.
exit_status(strat, returncode, stderr_says_cancelled, stdout_cleaned) ==
    IF stderr_says_cancelled \/ (strat = "macos" /\ returncode = 1)
    THEN Return("USER_CANCELLED", <<"Operation cancelled.">>)
    ELSE IF strat = "macos" /\ InSeq(":", stdout_cleaned)
            /\ parse_status_line(stdout_cleaned).msg
                 # <<"Helper script returned unknown status.">>
    THEN Return(parse_status_line(stdout_cleaned).status,
                <<"osascript error but helper provided status", ":">>
                \o parse_status_line(stdout_cleaned).msg)
    ELSE Return("ERROR_INTERNAL", <<"Failed to perform the operation", ":", " stderr">>)

AuthFail ==
    /\ pc = "running"
    /\ faultsLeft > 0
    /\ faultsLeft' = faultsLeft - 1
    /\ raised' = raised
    /\ \E returncode \in {1, 126}, stderr_says_cancelled \in BOOLEAN :
        /\ proc' = [proc EXCEPT !.returncode = returncode,
                                 !.stderr_says_cancelled = stderr_says_cancelled]
        /\ Finish(exit_status(strategy, returncode, stderr_says_cancelled, strip(stdout)))
    /\ UNCHANGED <<hostsStat, tmpStat, original, hostsStat0, osascript>>
    /\ UNCHANGED <<hosts, hostsExists, tmp, tmpExists, is_flatpak, current_os, ctx, op,
                   plan, wret, strategy, stdout, opsLeft, file0, writer_calls, spawned,
                   direct_status, prev,
                   attempts>>

\* Timeout with the escalation started again after the child was killed.
Timeout_retries ==
    /\ \/ pc = "running"
       \/ ctx = "helper" /\ pc \in WriterPcs
    /\ faultsLeft > 0
    /\ faultsLeft' = faultsLeft - 1
    /\ raised' = raised
    /\ proc' = [proc EXCEPT !.launch = "TimeoutExpired"]
    /\ pc' = "escalate" /\ ret' = NoRet
    /\ UNCHANGED <<hostsStat, tmpStat, original, hostsStat0, osascript>>
    /\ UNCHANGED <<hosts, hostsExists, tmp, tmpExists, is_flatpak, current_os, ctx, op,
                   plan, wret, strategy, stdout, opsLeft, file0, writer_calls, spawned,
                   direct_status, prev,
                   attempts>>

\* except subprocess.TimeoutExpired: subprocess.run killed the child, wherever
\* it stood.
Timeout ==
    /\ \/ pc = "running"
       \/ ctx = "helper" /\ pc \in WriterPcs
    /\ faultsLeft > 0
    /\ faultsLeft' = faultsLeft - 1
    /\ raised' = raised
    /\ proc' = [proc EXCEPT !.launch = "TimeoutExpired"]
    /\ Finish(Return("ERROR_INTERNAL", <<"Privileged operation timed out.">>))
    /\ UNCHANGED <<hostsStat, tmpStat, original, hostsStat0, osascript>>
    /\ UNCHANGED <<hosts, hostsExists, tmp, tmpExists, is_flatpak, current_os, ctx, op,
                   plan, wret, strategy, stdout, opsLeft, file0, writer_calls, spawned,
                   direct_status, prev,
                   attempts>>

----------------------------------------------------------------------------
(* The specification.                                                      *)

Next ==
    \/ update_hosts_file_content
    \/ remove_hosts_entry
    \/ read_hosts_file_content
    \/ read_hosts_file_content_fallback
    \/ read_hosts_file_content_privileged
    \/ w_stat
    \/ w_mkstemp
    \/ w_write
    \/ w_meta
    \/ w_replace
    \/ w_finally
    \/ Kill
    \/ Escalate
    \/ HelperMain
    \/ Decode
    \/ AuthFail
    \/ Timeout

Spec == Init /\ [][Next]_vars

----------------------------------------------------------------------------
(* The wire format on its own: a helper about to print the (Status,        *)
(* message) of its direct operation, for every Status and a set of         *)
(* messages, and a _run_* function about to decode output that is not a    *)
(* status line.                                                            *)

\* Messages a helper may be given to print: empty, plain, with ':' inside,
\* with whitespace at either end, with a newline at the end (the text of an
\* exception is part of most messages).
Messages ==
    {<<>>,
     <<"No changes made.">>,
     <<"I/O error updating hosts", ":", " e">>,
     <<" ", "e">>,
     <<"e", " ">>,
     <<"e", NL>>}

\* Output that is no status line: an unknown name before the ':', no ':',
\* nothing.
MalformedOutputs ==
    {<<"BOGUS", ":", "e", NL>>, <<"Traceback", NL>>, <<>>}

WireOps == {UpdateOp(<<"1">>, <<"a">>, FALSE), RemoveOp(<<"1", " ", "a">>)}

InitWire ==
    /\ hosts = <<>> /\ hostsExists = TRUE
    /\ tmp = <<>> /\ tmpExists = FALSE
    /\ opsLeft = 0 /\ faultsLeft = 0
    /\ strategy \in {"linux", "flatpak", "macos"}
    /\ is_flatpak = (strategy = "flatpak")
    /\ current_os = (IF strategy = "macos" THEN "Darwin" ELSE "Linux")
    /\ ctx = "helper"
    /\ op \in WireOps
    /\ plan = NoPlan
    /\ ret = NoRet
    /\ file0 = hosts
    /\ writer_calls = 0 /\ spawned = 1 /\ attempts = 1
    /\ direct_status = "ERROR_PERMISSION"
    /\ prev = [op |-> NoOp, ret |-> NoRet]
    /\ hostsStat = DefaultStat /\ tmpStat = NoStat /\ original = NoStat
    /\ hostsStat0 = hostsStat /\ raised = "ok" /\ osascript = NoScript
    /\ \/ /\ pc = "helper_exit"
          /\ \E status \in Status, msg \in Messages : wret = Return(status, msg)
          /\ stdout = <<>>
          /\ proc = [NoProc EXCEPT !.launch = "ok"]
       \/ /\ pc = "decode"
          /\ wret = NoRet
          /\ stdout \in MalformedOutputs
          /\ proc = [NoProc EXCEPT !.launch = "ok", !.returncode = 0]

\* _print_status_and_exit(status_code, message): print, then sys.exit(0).
HelperPrints ==
    /\ pc = "helper_exit"
    /\ stdout' = print_status(wret.status, wret.msg)
    /\ proc' = [proc EXCEPT !.returncode = 0]
    /\ pc' = "decode"
    /\ UNCHANGED <<hostsStat, tmpStat, original, hostsStat0, osascript>>
    /\ UNCHANGED <<hosts, hostsExists, tmp, tmpExists, is_flatpak, current_os, ctx, op,
                   plan, wret, strategy, ret, opsLeft, faultsLeft, raised, file0, writer_calls,
                   spawned, direct_status, prev, attempts>>

NextWire ==
    \/ HelperPrints
    \/ Decode

SpecWire == InitWire /\ [][NextWire]_vars

----------------------------------------------------------------------------
(* The macOS command line: _build_macos_command_args and the quoting of    *)
(* _run_macos_elevated, then what osascript and /bin/sh make of the text.  *)
(* Strings are sequences of characters; the fixed words of the command     *)
(* ("python3", "--ip", ...) stand as one character each.                   *)

MaxArgLen == 2

\* Characters an argument is made of: a letter, a space, a single quote, a
\* double quote, a backslash.
ArgChars == {"a", " ", "'", "\"", "\\"}

\* Argument strings of up to n characters.
RECURSIVE ArgStrings(_)
ArgStrings(n) ==
    IF n = 0 THEN {<<>>}
    ELSE ArgStrings(n - 1) \cup {Append(a, c) : a \in ArgStrings(n - 1), c \in ArgChars}

\* The operations whose arguments go through the quoting: update with an IP
\* of up to one character and a domain of up to MaxArgLen, remove with an
\* "IP DOMAIN" entry that splits into its two parts.
QuoteOps ==
    {UpdateOp(ip, d, delete) :
        ip \in ArgStrings(1), d \in ArgStrings(MaxArgLen), delete \in BOOLEAN}
    \cup {RemoveOp(<<"1", " ">> \o d) :
            d \in {a \in ArgStrings(MaxArgLen) :
                      Len(split_maxsplit1(<<"1", " ">> \o a)) = 2}}

\* HostsFileEdit._build_macos_command_args, when it returns a list.
_build_macos_command_args(o) ==
    <<<<"python3">>, <<"MACOS_HELPER_EXECUTABLE_PATH">>, <<operation_type(o)>>>>
    \o (IF o.type = "update"
        THEN <<<<"--ip">>, o.staging_ip, <<"--domain">>, o.sanitized_domain,
               <<"--delete">>, <<delete_str(o.delete)>>>>
        ELSE IF o.type = "remove"
        THEN <<<<"--ip">>, split_maxsplit1(o.entry_to_remove)[1],
               <<"--domain">>, split_maxsplit1(o.entry_to_remove)[2]>>
        ELSE <<>>)

\* s_val.replace("'", "'\\''")
RECURSIVE replace_single_quotes(_)
replace_single_quotes(s_val) ==
    IF s_val = <<>> THEN <<>>
    ELSE (IF Head(s_val) = "'" THEN <<"'", "\\", "'", "'">> ELSE <<Head(s_val)>>)
         \o replace_single_quotes(Tail(s_val))

\* sh_quote of _run_macos_elevated.
sh_quote(s_val) == <<"'">> \o replace_single_quotes(s_val) \o <<"'">>

\* " ".join([sh_quote(arg) for arg in cmd_args])
shell_cmd_str(cmd_args) == join([i \in 1..Len(cmd_args) |-> sh_quote(cmd_args[i])])

\* f'do shell script "{shell_cmd_str}" with administrator privileges'
osascript_cmd_str(cmd_args) ==
    <<"do shell script ", "\"">> \o shell_cmd_str(cmd_args)
    \o <<"\"", " with administrator privileges">>

\* AppleScript reads a string literal from behind its opening double quote:
\* \" and \\ stand for the character escaped, a backslash before another
\* character is a syntax error, a double quote ends the literal.
RECURSIVE applescript_literal(_, _)
applescript_literal(rest, value) ==
    IF rest = <<>> THEN [ok |-> FALSE, value |-> value, rest |-> <<>>]
    ELSE IF Head(rest) = "\"" THEN [ok |-> TRUE, value |-> value, rest |-> Tail(rest)]
    ELSE IF Head(rest) = "\\"
    THEN IF Len(rest) >= 2 /\ rest[2] \in {"\"", "\\"}
         THEN applescript_literal(Tail(Tail(rest)), Append(value, rest[2]))
         ELSE [ok |-> FALSE, value |-> value, rest |-> rest]
    ELSE applescript_literal(Tail(rest), Append(value, Head(rest)))

\* osascript -e script: the script compiles when it is do shell script, one
\* string literal, with administrator privileges, and nothing else.
osascript_compiles(script) ==
    /\ Len(script) >= 3
    /\ applescript_literal(SubSeq(script, 3, Len(script)), <<>>).ok
    /\ applescript_literal(SubSeq(script, 3, Len(script)), <<>>).rest
         = <<" with administrator privileges">>

\* /bin/sh -c command splits the command into words: a single-quoted part is
\* literal, a backslash outside quotes makes the next character literal, in a
\* double-quoted part a backslash escapes a double quote or a backslash; an
\* open quote or a backslash at the end is a syntax error.
RECURSIVE sh_words(_, _, _, _, _)
sh_words(rest, mode, word, in_word, words) ==
    IF rest = <<>>
    THEN [ok |-> mode = "plain",
          argv |-> IF in_word THEN Append(words, word) ELSE words]
    ELSE IF mode = "single"
    THEN IF Head(rest) = "'" THEN sh_words(Tail(rest), "plain", word, TRUE, words)
         ELSE sh_words(Tail(rest), "single", Append(word, Head(rest)), TRUE, words)
    ELSE IF mode = "double"
    THEN IF Head(rest) = "\"" THEN sh_words(Tail(rest), "plain", word, TRUE, words)
         ELSE IF Head(rest) = "\\" /\ Len(rest) >= 2 /\ rest[2] \in {"\"", "\\"}
         THEN sh_words(Tail(Tail(rest)), "double", Append(word, rest[2]), TRUE, words)
         ELSE sh_words(Tail(rest), "double", Append(word, Head(rest)), TRUE, words)
    ELSE IF Head(rest) = " "
    THEN sh_words(Tail(rest), "plain", <<>>, FALSE,
                  IF in_word THEN Append(words, word) ELSE words)
    ELSE IF Head(rest) = "'" THEN sh_words(Tail(rest), "single", word, TRUE, words)
    ELSE IF Head(rest) = "\"" THEN sh_words(Tail(rest), "double", word, TRUE, words)
    ELSE IF Head(rest) = "\\"
    THEN IF Len(rest) >= 2
         THEN sh_words(Tail(Tail(rest)), "plain", Append(word, rest[2]), TRUE, words)
         ELSE [ok |-> FALSE, argv |-> words]
    ELSE sh_words(Tail(rest), "plain", Append(word, Head(rest)), TRUE, words)

\* The dispatcher is in _run_macos_elevated with the arguments of op.
InitQuote ==
    /\ hosts = <<>> /\ hostsExists = TRUE
    /\ tmp = <<>> /\ tmpExists = FALSE
    /\ opsLeft = 0 /\ faultsLeft = 0
    /\ strategy = "macos" /\ is_flatpak = FALSE /\ current_os = "Darwin"
    /\ ctx = "direct"
    /\ op \in QuoteOps
    /\ plan = NoPlan /\ wret = NoRet /\ ret = NoRet
    /\ stdout = <<>>
    /\ file0 = hosts
    /\ writer_calls = 0 /\ spawned = 0 /\ attempts = 1
    /\ direct_status = "ERROR_PERMISSION"
    /\ prev = [op |-> NoOp, ret |-> NoRet]
    /\ proc = NoProc
    /\ hostsStat = DefaultStat /\ tmpStat = NoStat /\ original = NoStat
    /\ hostsStat0 = hostsStat /\ raised = "ok"
    /\ osascript = NoScript
    /\ pc = "macos_quote"

\* _run_macos_elevated up to subprocess.run(["osascript", "-e", ...]).
QuoteCommand ==
    /\ pc = "macos_quote"
    /\ osascript' = [osascript EXCEPT !.cmd_args = _build_macos_command_args(op),
                        !.script = osascript_cmd_str(_build_macos_command_args(op))]
    /\ spawned' = spawned + 1
    /\ pc' = "osascript"
    /\ UNCHANGED <<hosts, hostsExists, tmp, tmpExists, is_flatpak, current_os, ctx, op,
                   plan, wret, strategy, stdout, ret, opsLeft, faultsLeft, file0,
                   writer_calls, direct_status, prev, proc, attempts, hostsStat,
                   tmpStat, original, hostsStat0, raised>>

\* osascript compiles the script and hands the string to do shell script, or
\* exits with a syntax error.
OsascriptRuns ==
    /\ pc = "osascript"
    /\ IF osascript_compiles(osascript.script)
       THEN /\ osascript' =
                 [osascript EXCEPT !.command =
                     applescript_literal(SubSeq(osascript.script, 3,
                                                Len(osascript.script)), <<>>).value]
            /\ pc' = "sh"
            /\ proc' = [proc EXCEPT !.launch = "ok"]
       ELSE /\ osascript' = osascript
            /\ pc' = "osascript_error"
            /\ proc' = [proc EXCEPT !.launch = "ok", !.returncode = 1]
    /\ UNCHANGED <<hosts, hostsExists, tmp, tmpExists, is_flatpak, current_os, ctx, op,
                   plan, wret, strategy, stdout, ret, opsLeft, faultsLeft, file0,
                   writer_calls, spawned, direct_status, prev, attempts, hostsStat,
                   tmpStat, original, hostsStat0, raised>>

\* /bin/sh parses the command and starts the helper with the words, or fails
\* on the syntax.
ShellRuns ==
    /\ pc = "sh"
    /\ IF sh_words(osascript.command, "plain", <<>>, FALSE, <<>>).ok
       THEN /\ osascript' =
                 [osascript EXCEPT !.argv =
                     sh_words(osascript.command, "plain", <<>>, FALSE, <<>>).argv]
            /\ pc' = "helper_started"
            /\ proc' = proc
       ELSE /\ osascript' = osascript
            /\ pc' = "sh_error"
            /\ proc' = [proc EXCEPT !.returncode = 2]
    /\ UNCHANGED <<hosts, hostsExists, tmp, tmpExists, is_flatpak, current_os, ctx, op,
                   plan, wret, strategy, stdout, ret, opsLeft, faultsLeft, file0,
                   writer_calls, spawned, direct_status, prev, attempts, hostsStat,
                   tmpStat, original, hostsStat0, raised>>

NextQuote ==
    \/ QuoteCommand
    \/ OsascriptRuns
    \/ ShellRuns

SpecQuote == InitQuote /\ [][NextQuote]_vars

----------------------------------------------------------------------------
(* Properties.                                                             *)

\* The lines of the file the running operation was called on.
original_lines0 == readlines(file0)

IsUpsert(o) == o.type = "update" /\ ~o.delete
IsMutation(o) == o.type \in {"update", "remove"}

\* The public operation returned `status`.
Returned(status) == pc = "idle" /\ ret.kind = "return" /\ ret.status = status

\* The domain the operation is about, lowercased.
target_domain_lower(o) ==
    IF o.type = "update" THEN lower(o.sanitized_domain)
    ELSE lower(split_maxsplit1(o.entry_to_remove)[2])

\* The IP the operation names.
target_ip(o) ==
    IF o.type = "update" THEN o.staging_ip ELSE split_maxsplit1(o.entry_to_remove)[1]

\* Line l, parsed as p, names the domain among its hostnames.
HoldsDomain(p, domain_lower) == ~p.ip_none /\ InSeq(domain_lower, p.norm)

\* Line l, parsed as p, holds the domain only in the casing `domain`.
InCallerCasing(p, domain) ==
    \A k \in 1..Len(p.hosts) : p.norm[k] = lower(domain) => p.hosts[k] = domain

\* The operation o takes the domain off the line parsed as p (and does not
\* keep it there): DeleteDomain wherever it stands, Upsert where the IP is
\* another one, Remove where the IP is the one named.
StripsDomainFrom(o, p) ==
    /\ HoldsDomain(p, target_domain_lower(o))
    /\ IF o.type = "remove" THEN p.ip = target_ip(o)
       ELSE o.delete \/ p.ip # target_ip(o)

\* The hostnames of p other than the domain, in their order and casing.
OtherHostnames(p, domain_lower) ==
    SelectSeq(p.hosts, LAMBDA h : lower(h) # domain_lower)

\* The line a rewrite of l (parsed as p) is to give: IP, remaining hostnames,
\* the trailing comment when l has one, a newline.
ExpectedRewrite(l, p, domain_lower) ==
    join(<<p.ip>> \o OtherHostnames(p, domain_lower))
    \o (IF has_hash(l) THEN <<" ", "#">> \o after_hash(strip(l)) ELSE <<>>)
    \o <<NL>>

\* l is a line of one token: not blank, not a comment, and not parsed.
IsLoneToken(l, p) == p.ip_none /\ strip(l) # <<>> /\ ~startswith_hash(strip(l))

IsCommentOrBlank(l) == strip(l) = <<>> \/ startswith_hash(strip(l))

\* l (parsed as p) is outside what the operation o is about.
IsFrameParsed(o, l, p) ==
    \/ IsCommentOrBlank(l)
    \/ /\ ~p.ip_none
       /\ ~HoldsDomain(p, target_domain_lower(o))
    \/ /\ ~p.ip_none
       /\ o.type = "remove"
       /\ p.ip # target_ip(o)
IsFrame(o, l) == IsFrameParsed(o, l, _parse_hosts_line(l))

\* a is b with some elements left out.
RECURSIVE IsSubseq(_, _)
IsSubseq(a, b) ==
    IF a = <<>> THEN TRUE
    ELSE IF b = <<>> THEN FALSE
    ELSE IF Head(a) = Head(b) THEN IsSubseq(Tail(a), Tail(b))
    ELSE IsSubseq(a, Tail(b))

EndsWithNewline(l) == l # <<>> /\ l[Len(l)] = NL

\* C1: Upsert(domain, ip) twice in succession: when the first call returned
\* SUCCESS, the second returns ALREADY_EXISTS and leaves the file as the first
\* call left it.
C1_UpsertTwiceIdempotent ==
    (/\ pc = "idle" /\ ret.kind = "return"
     /\ IsUpsert(op) /\ prev.op = op
     /\ prev.ret.kind = "return" /\ prev.ret.status = "SUCCESS")
    => (ret.status = "ALREADY_EXISTS" /\ hosts = file0)

\* The file holds the domain on line i with the target IP, in the caller's
\* casing, and on no other line.
AlreadyCorrectAt(lines, o, i) ==
    /\ HoldsDomain(_parse_hosts_line(lines[i]), lower(o.sanitized_domain))
    /\ _parse_hosts_line(lines[i]).ip = o.staging_ip
    /\ InCallerCasing(_parse_hosts_line(lines[i]), o.sanitized_domain)
    /\ \A j \in 1..Len(lines) :
          j # i => ~HoldsDomain(_parse_hosts_line(lines[j]), lower(o.sanitized_domain))

\* C2: when the file already maps the domain (caller's casing, one line) to
\* the target IP, Upsert returns ALREADY_EXISTS, the atomic writer is not
\* called and the file is byte-identical.
C2_AlreadyCorrectNoWrite ==
    (/\ pc = "idle" /\ ret.kind = "return"
     /\ ret.status \in {"SUCCESS", "ALREADY_EXISTS"}
     /\ IsUpsert(op)
     /\ \E i \in 1..Len(original_lines0) : AlreadyCorrectAt(original_lines0, op, i))
    => (ret.status = "ALREADY_EXISTS" /\ writer_calls = 0 /\ hosts = file0)

\* The lines of `lines` that hold the domain all give it the IP of o, and
\* there is one.
MapsDomainOnlyTo(lines, o) ==
    /\ \E i \in 1..Len(lines) :
          /\ HoldsDomain(_parse_hosts_line(lines[i]), lower(o.sanitized_domain))
          /\ _parse_hosts_line(lines[i]).ip = o.staging_ip
    /\ \A i \in 1..Len(lines) :
          HoldsDomain(_parse_hosts_line(lines[i]), lower(o.sanitized_domain))
          => _parse_hosts_line(lines[i]).ip = o.staging_ip

\* C3: after Upsert(domain, targetIp) returned SUCCESS, the file, parsed line
\* by line, names the domain on a line with targetIp and on no line with
\* another IP.
C3_UpsertPostcondition ==
    (Returned("SUCCESS") /\ IsUpsert(op)) => MapsDomainOnlyTo(readlines(hosts), op)

\* C4: a line the domain is stripped from and that holds other hostnames is
\* written as the IP, the remaining hostnames in their order and casing, the
\* trailing comment only if the line had one, and a newline.
C4_MultiHostRewrite ==
    (pc = "w_stat" /\ IsMutation(op))
    => \A i \in 1..Len(original_lines0) :
          (/\ StripsDomainFrom(op, _parse_hosts_line(original_lines0[i]))
           /\ OtherHostnames(_parse_hosts_line(original_lines0[i]),
                             target_domain_lower(op)) # <<>>)
          => InSeq(ExpectedRewrite(original_lines0[i],
                                   _parse_hosts_line(original_lines0[i]),
                                   target_domain_lower(op)),
                   plan.lines)

\* C5: the hosts file changes in one step only, the rename of the writer, from
\* the content the operation was called on to the complete new line list; a
\* kill or a failure at any step of the writer leaves it as it was.
C5_NoPartialWrite ==
    [][hosts' # hosts
       => (pc = "w_replace" /\ hosts = file0 /\ hosts' = writelines(plan.lines))]_vars

\* The writer failed in the middle of its write and the process was killed:
\* the partial text is in the temporary file, the hosts file is untouched.
C5_Witness ==
    /\ pc = "killed"
    /\ tmpExists /\ tmp # <<>> /\ tmp # writelines(plan.lines)
    /\ hosts = file0

\* C6 as stated: the helper is invoked exactly when the direct attempt
\* returned ERROR_PERMISSION.
C6_EscalatesIffPermission ==
    /\ spawned > 0 => direct_status = "ERROR_PERMISSION"
    /\ (pc = "idle" /\ ret.kind # "none" /\ direct_status = "ERROR_PERMISSION")
       => spawned > 0

\* C6, amended: a helper is started only after the direct attempt returned
\* ERROR_PERMISSION; every other direct outcome is returned unchanged without
\* a subprocess; after ERROR_PERMISSION the helper is started on Linux and in
\* a Flatpak on Linux, and where it is not (another platform, or the macOS
\* command cannot be built) the operation returns ERROR_INTERNAL.
C6_EscalatesOnlyOnPermission ==
    /\ spawned > 0 => direct_status = "ERROR_PERMISSION"
    /\ (pc = "idle" /\ ret.kind # "none"
        /\ direct_status \notin {"none", "ERROR_PERMISSION"})
       => (spawned = 0 /\ ret.kind = "return" /\ ret.status = direct_status)
    /\ (pc = "idle" /\ ret.kind # "none" /\ direct_status = "ERROR_PERMISSION")
       => \/ spawned = 1
          \/ /\ strategy \in {"none", "macos"}
             /\ ret.kind = "return" /\ ret.status = "ERROR_INTERNAL"

\* The direct attempt was denied, the helper ran and the operation succeeded.
C6_Witness ==
    /\ Returned("SUCCESS")
    /\ direct_status = "ERROR_PERMISSION"
    /\ spawned = 1
    /\ hosts # file0

\* C7: every public operation ends by returning one Outcome with a message or
\* content; no exception reaches the caller.
C7_AlwaysReturnsOutcome ==
    /\ ret.kind # "raise"
    /\ (pc = "idle" /\ op # NoOp) => (ret.kind = "return" /\ ret.status \in Status)

\* C8: after a mutating operation wrote the file, every line of the file ends
\* with a newline and the lines of the file are the lines written, each a line
\* of its own.
C8_LinesEndWithNewline ==
    (pc = "w_finally" /\ wret.status = "SUCCESS" /\ IsMutation(op))
    => /\ \A i \in 1..Len(readlines(hosts)) : EndsWithNewline(readlines(hosts)[i])
       /\ readlines(hosts) = plan.lines

FrameLines(o, lines) == SelectSeq(lines, LAMBDA l : IsFrame(o, l))

\* The line Upsert appends.
new_entry_line_of(o) == o.staging_ip \o <<" ">> \o strip(o.sanitized_domain) \o <<NL>>

----------------------------------------------------------------------------
(* C11..C20.                                                               *)

\* The text of line l from its first '#' to its end, without the whitespace
\* around the line and the terminator; empty when l has no '#'.
FromFirstHash(l) ==
    IF has_hash(strip(l))
    THEN SubSeq(strip(l), FirstIn(strip(l), {"#"}), Len(strip(l)))
    ELSE <<>>

\* Line w is the rewrite of the line parsed as p: its IP and the hostnames
\* other than the domain.
IsRewriteOf(w, p, domain_lower) ==
    split(before_hash(w)) = <<p.ip>> \o OtherHostnames(p, domain_lower)

MetaFailureReturns ==
    pc = "w_finally" /\ wret = meta_error /\ wret' = NoRet

\* The direct operation handed ERROR_IO on: to the caller, or on the helper's
\* stdout.
HandsOnErrorIO ==
    IF ctx = "direct"
    THEN pc' = "idle" /\ ret' = meta_error
    ELSE pc' = "decode" /\ stdout' = print_status("ERROR_IO", meta_error.msg)

PrivilegedDirect(o, content) ==
    LET pl == direct_plan(o, readlines(content))
    IN  [status |-> pl.status,
         content |-> IF pl.write THEN writelines(pl.lines) ELSE content]

\* The helper was started once after a refused direct attempt, ran to its end
\* with nothing failing, exited 0, and its output was decoded.
ElevatedRunCompleted ==
    /\ pc = "idle" /\ spawned = 1
    /\ direct_status = "ERROR_PERMISSION"
    /\ proc.launch = "ok" /\ proc.returncode = 0
    /\ faultsLeft = MaxFaults - 1

StatusLineDecoded ==
    pc = "idle" /\ IsMutation(op) /\ wret.kind = "return" /\ proc.returncode = 0

\* Output that is no status line was decoded for an update or a remove.
MalformedDecoded ==
    pc = "idle" /\ IsMutation(op) /\ wret = NoRet /\ stdout \in MalformedOutputs

\* C14 as stated: the line "NAME:message" a helper prints for the Outcome s
\* and the message m is decoded, under each strategy and with exit code 0, to
\* exactly s and m; output with an unknown name before the first ':' or with
\* no ':' is decoded to ERROR_INTERNAL for update/remove.
C14_WireRoundTripExact ==
    /\ StatusLineDecoded => ret = Return(wret.status, wret.msg)
    /\ MalformedDecoded => (ret.kind = "return" /\ ret.status = "ERROR_INTERNAL")

\* C14, amended: the line is decoded to exactly s, and to m without the
\* whitespace at its end (the decoder strips the output before it splits it
\* at the first ':'); malformed output is decoded to ERROR_INTERNAL.
C14_WireRoundTripUpToTrailingWhitespace ==
    /\ StatusLineDecoded => ret = Return(wret.status, rstrip(wret.msg))
    /\ MalformedDecoded => (ret.kind = "return" /\ ret.status = "ERROR_INTERNAL")

\* A status line whose message holds a ':' went over the wire unchanged.
C14_Witness ==
    /\ StatusLineDecoded
    /\ wret.status = "USER_CANCELLED"
    /\ InSeq(":", wret.msg)
    /\ ret = Return(wret.status, wret.msg)

\* The text has no ':' before its first whitespace.
NoColonBeforeWhitespace(text) ==
    LET n == FirstIn(text, WS)
    IN  ~InSeq(":", IF n = 0 THEN text ELSE SubSeq(text, 1, n - 1))

\* The helper of a read was started, wrote the content of the hosts file to
\* its stdout and exited 0, and the output was decoded.
RawReadDecoded ==
    /\ pc = "idle" /\ op.type \in ReadOps
    /\ spawned = 1 /\ proc.launch = "ok" /\ proc.returncode = 0
    /\ stdout = hosts

\* C15: when the helper of a read exits 0 and the first line of its output has
\* no ':' before the first whitespace, the output is taken as the raw content
\* and the read returns SUCCESS, also when the first line has a ':' after
\* whitespace, as a comment line may.
C15_RawReadIsSuccess ==
    (RawReadDecoded /\ NoColonBeforeWhitespace(stdout))
    => (ret.kind = "return" /\ ret.status = "SUCCESS")

\* The operation is over; its direct attempt was refused on a platform that
\* is neither Linux nor macOS.
RefusedOnUnsupportedPlatform ==
    /\ pc = "idle" /\ op.type # "none"
    /\ direct_status = "ERROR_PERMISSION"
    /\ current_os \notin {"Linux", "Darwin"}

ToolWasMissing == pc = "idle" /\ spawned = 1 /\ proc.launch = "FileNotFoundError"

\* C17: when the escalation tool cannot be found, the operation returns
\* ERROR_NOT_FOUND on Linux (pkexec) and ERROR_INTERNAL on macOS (osascript),
\* each with a message.
C17_ToolNotFoundOutcome ==
    (ToolWasMissing /\ strategy \in {"linux", "macos"})
    => /\ ret.kind = "return"
       /\ ret.status = (IF strategy = "linux" THEN "ERROR_NOT_FOUND" ELSE "ERROR_INTERNAL")
       /\ ret.msg # <<>>

\* The operation is over; the escalation tool exited with a non-zero code.
ExitedNonZero ==
    pc = "idle" /\ spawned = 1 /\ proc.launch = "ok" /\ proc.returncode > 0

\* C18 as stated: a non-zero exit of the escalation tool gives USER_CANCELLED
\* exactly when the tool's error output holds a cancellation or
\* authorization-denied marker, otherwise ERROR_INTERNAL, each with a message.
C18_CancelledIffMarker ==
    ExitedNonZero
    => /\ ret.kind = "return" /\ ret.msg # <<>>
       /\ ret.status = (IF proc.stderr_says_cancelled
                        THEN "USER_CANCELLED" ELSE "ERROR_INTERNAL")

\* C18, amended: USER_CANCELLED exactly when the error output holds a marker
\* or, under osascript, the exit code is 1; otherwise ERROR_INTERNAL with the
\* stderr detail.
C18_CancelledIffMarkerOrOsascriptExit1 ==
    ExitedNonZero
    => /\ ret.kind = "return" /\ ret.msg # <<>>
       /\ ret.status =
             (IF proc.stderr_says_cancelled \/ (strategy = "macos" /\ proc.returncode = 1)
              THEN "USER_CANCELLED" ELSE "ERROR_INTERNAL")
       /\ hosts = file0

\* osascript exited 1 with no marker in its error output.
C18_Witness ==
    /\ ExitedNonZero
    /\ strategy = "macos" /\ proc.returncode = 1 /\ ~proc.stderr_says_cancelled
    /\ ret.status = "USER_CANCELLED"

\* Steps the operation can still take from where it stands: every step of an
\* operation moves to a place with a smaller number.
StepsAhead(who, where) ==
    CASE where \in {"idle", "killed"} -> 0
      [] where = "decode" -> 1
      [] where = "w_finally" -> IF who = "helper" THEN 2 ELSE 10
      [] where = "w_replace" -> IF who = "helper" THEN 3 ELSE 11
      [] where = "w_meta" -> IF who = "helper" THEN 4 ELSE 12
      [] where = "w_write" -> IF who = "helper" THEN 5 ELSE 13
      [] where = "w_mkstemp" -> IF who = "helper" THEN 6 ELSE 14
      [] where = "w_stat" -> IF who = "helper" THEN 7 ELSE 15
      [] where = "running" -> 8
      [] where = "escalate" -> 9
      [] OTHER -> 16

\* The step is the one in which subprocess.run raises TimeoutExpired.
TimesOut == proc.launch = "ok" /\ proc'.launch = "TimeoutExpired"

\* C19 as stated: a helper that outlives the time limit gives ERROR_INTERNAL
\* with a timeout message; within one public operation the caller reads the
\* file directly at most once and starts the helper at most once, and every
\* step brings the operation nearer to its end.
C19_TimeoutAndSingleAttempts ==
    [][/\ TimesOut
          => /\ pc' = "idle"
             /\ ret' = Return("ERROR_INTERNAL", <<"Privileged operation timed out.">>)
             /\ hosts' = hosts
       /\ attempts' <= 1
       /\ spawned' <= 1
       /\ pc # "idle" => StepsAhead(ctx', pc') < StepsAhead(ctx, pc)]_vars

\* C19, amended: as stated, but read_hosts_file_content reads the file
\* directly a second time (in read_hosts_file_content_privileged, to which it
\* hands over after its own PermissionError) before the helper is started.
C19_TimeoutAndBoundedAttempts ==
    [][/\ TimesOut
          => /\ pc' = "idle"
             /\ ret' = Return("ERROR_INTERNAL", <<"Privileged operation timed out.">>)
             /\ hosts' = hosts
       /\ attempts' <= (IF op'.type = "read" THEN 2 ELSE 1)
       /\ spawned' <= 1
       /\ pc # "idle" => StepsAhead(ctx', pc') < StepsAhead(ctx, pc)]_vars

\* The helper of an update was started once and timed out.
C19_Witness ==
    /\ pc = "idle" /\ op.type = "update"
    /\ proc.launch = "TimeoutExpired"
    /\ ret = Return("ERROR_INTERNAL", <<"Privileged operation timed out.">>)
    /\ spawned = 1 /\ attempts = 1

\* The text is one line "NAME:message" with the name of a Status.
IsOneStatusLine(text) ==
    /\ Len(text) >= 3
    /\ text[1] \in Status /\ text[2] = ":"
    /\ FirstIn(text, {NL}) = Len(text)

\* The helper of an update or a remove has run and exited.
HelperOfMutationExited ==
    pc = "decode" /\ ctx = "helper" /\ IsMutation(op)

\* C20: whenever a helper has run an update or a remove, whatever the Outcome
\* of its direct operation, it has written exactly one line STATUS:message to
\* its stdout and exited with code 0.
C20_HelperPrintsOneLineExitsZero ==
    HelperOfMutationExited
    => (IsOneStatusLine(stdout) /\ proc.returncode = 0)

\* A helper's direct operation failed in the writer; the helper printed the
\* error status and exited 0.
C20_Witness ==
    /\ HelperOfMutationExited
    /\ stdout[1] = "ERROR_IO" /\ writer_calls = 1
    /\ proc.returncode = 0

----------------------------------------------------------------------------
(* C21..C30.                                                               *)

\* A well-formed Remove has returned, and the operation before it was an
\* Upsert of the same IP and the same domain in some casing that returned
\* SUCCESS.
RemoveAfterUpsert ==
    /\ pc = "idle" /\ ret.kind = "return"
    /\ op.type = "remove" /\ Len(split_maxsplit1(op.entry_to_remove)) = 2
    /\ IsUpsert(prev.op)
    /\ prev.ret.kind = "return" /\ prev.ret.status = "SUCCESS"
    /\ target_ip(op) = prev.op.staging_ip
    /\ target_domain_lower(op) = lower(prev.op.sanitized_domain)

\* No line of `lines` gives the domain the IP.
NoLineMaps(lines, ip, domain_lower) ==
    \A i \in 1..Len(lines) :
        ~(/\ HoldsDomain(_parse_hosts_line(lines[i]), domain_lower)
          /\ _parse_hosts_line(lines[i]).ip = ip)

\* C21: an Upsert of a domain in one casing followed by a Remove of the same
\* IP with the domain in any casing returns SUCCESS and leaves no line that
\* maps the domain to the IP.
C21_RemoveAfterUpsertAnyCasing ==
    RemoveAfterUpsert
    => /\ ret.status = "SUCCESS"
       /\ NoLineMaps(readlines(hosts), target_ip(op), target_domain_lower(op))

\* A well-formed Remove has returned the status it decided itself (nothing
\* failed on its way).
RemoveDecided ==
    /\ pc = "idle" /\ ret.kind = "return"
    /\ op.type = "remove" /\ Len(split_maxsplit1(op.entry_to_remove)) = 2
    /\ ret.status \in {"SUCCESS", "ALREADY_EXISTS"}

\* C22: a Remove for which no line has both the IP and, in any casing, the
\* domain (also when the domain stands under another IP) returns
\* ALREADY_EXISTS, does not call the atomic writer and leaves the file as it
\* was; so a second identical Remove after a successful one returns
\* ALREADY_EXISTS.
C22_RemoveWithoutMatch ==
    /\ (RemoveDecided
        /\ NoLineMaps(original_lines0, target_ip(op), target_domain_lower(op)))
       => (ret.status = "ALREADY_EXISTS" /\ writer_calls = 0 /\ hosts = file0)
    /\ (RemoveDecided /\ prev.op = op
        /\ prev.ret.kind = "return" /\ prev.ret.status = "SUCCESS")
       => (ret.status = "ALREADY_EXISTS" /\ writer_calls = 0 /\ hosts = file0)

\* A Remove returned for a file that names the domain under another IP only.
C22_Witness ==
    /\ RemoveDecided
    /\ NoLineMaps(original_lines0, target_ip(op), target_domain_lower(op))
    /\ \E i \in 1..Len(original_lines0) :
          HoldsDomain(_parse_hosts_line(original_lines0[i]), target_domain_lower(op))
    /\ ret.status = "ALREADY_EXISTS"

\* A Remove returned SUCCESS and the same Remove, called again, returned.
C22_WitnessSecond ==
    /\ RemoveDecided /\ prev.op = op
    /\ prev.ret.kind = "return" /\ prev.ret.status = "SUCCESS"
    /\ ret.status = "ALREADY_EXISTS"

\* A DeleteDomain has returned the status it decided itself.
DeleteDecided ==
    /\ pc = "idle" /\ ret.kind = "return"
    /\ op.type = "update" /\ op.delete
    /\ ret.status \in {"SUCCESS", "ALREADY_EXISTS"}

\* Some line of `lines` lists the domain as a hostname, under whatever IP.
SomeLineLists(lines, domain_lower) ==
    \E i \in 1..Len(lines) : HoldsDomain(_parse_hosts_line(lines[i]), domain_lower)

\* C23: DeleteDomain returns SUCCESS exactly when some line listed the
\* domain, and ALREADY_EXISTS without writing otherwise; after SUCCESS no
\* line lists the domain, in any casing, under any IP, and the file has no
\* line more than before.
C23_DeleteDomain ==
    DeleteDecided
    => /\ (ret.status = "SUCCESS")
          <=> SomeLineLists(original_lines0, target_domain_lower(op))
       /\ ret.status = "ALREADY_EXISTS" => (writer_calls = 0 /\ hosts = file0)
       /\ ret.status = "SUCCESS"
          => /\ ~SomeLineLists(readlines(hosts), target_domain_lower(op))
             /\ Len(readlines(hosts)) <= Len(original_lines0)

\* A DeleteDomain took the domain off a line of another IP than the one it
\* was called with.
C23_Witness ==
    /\ DeleteDecided /\ ret.status = "SUCCESS"
    /\ \E i \in 1..Len(original_lines0) :
          /\ HoldsDomain(_parse_hosts_line(original_lines0[i]), target_domain_lower(op))
          /\ _parse_hosts_line(original_lines0[i]).ip # op.staging_ip

\* This step is the os.replace that installs the temporary file.
ReplacementInstalled == pc = "w_replace" /\ tmpExists /\ ~tmpExists'

\* C24: at every step of a mutating operation and after it, however it ends,
\* a target file that was there when the operation was called has the mode,
\* uid and gid it had then; and os.replace installs the temporary file only
\* when the values captured by os.stat (or the defaults) were applied to it.
C24_MetadataPreserved ==
    [][/\ hostsStat0' # NoStat => hostsStat' = hostsStat0'
       /\ ReplacementInstalled => (original # NoStat /\ tmpStat = original)]_vars

\* A mutating operation replaced a file that is not root's 0o644 file.
C24_Witness ==
    /\ Returned("SUCCESS") /\ IsMutation(op)
    /\ writer_calls > 0 /\ hosts # file0
    /\ hostsStat0 \notin {NoStat, DefaultStat}

\* An Upsert of a domain given in mixed case, which no line of the file lists,
\* has returned the status it decided itself; the file it was called on ends
\* with a newline (or is empty).
NewMixedCaseUpsert ==
    /\ pc = "idle" /\ ret.kind = "return" /\ IsUpsert(op)
    /\ ret.status \in {"SUCCESS", "ALREADY_EXISTS"}
    /\ op.sanitized_domain # lower(op.sanitized_domain)
    /\ ~SomeLineLists(original_lines0, target_domain_lower(op))
    /\ (file0 = <<>> \/ EndsWithNewline(file0))

\* C25: an Upsert of a domain not yet in the file and given in mixed case
\* returns SUCCESS, keeps the lines there were, and appends the entry with
\* the domain in lower case.
C25_NewMixedCaseWrittenLowercase ==
    NewMixedCaseUpsert
    => /\ ret.status = "SUCCESS"
       /\ Len(readlines(hosts)) = Len(original_lines0) + 1
       /\ readlines(hosts)[Len(original_lines0) + 1]
            = op.staging_ip \o <<" ">> \o lower(op.sanitized_domain) \o <<NL>>

\* The step is the writer's finally clause: the writer returns.
WriterReturns == pc = "w_finally" /\ wret # NoRet /\ wret' = NoRet

WriterStepRaised ==
    /\ pc \in WriterPcs \ {"w_finally"} /\ pc' = "w_finally"
    /\ raised' # "ok"

\* The status the claim gives a failure of the kind raised.
StatusOfFailure(e) ==
    CASE e = "PermissionError" -> "ERROR_PERMISSION"
      [] e = "OSError" -> "ERROR_IO"
      [] OTHER -> "ERROR_INTERNAL"

\* C27: a permission failure at any step of the writer (stat, temp-file
\* creation, write, applying owner/mode, replace) yields ERROR_PERMISSION, an
\* I/O failure ERROR_IO, any other exception ERROR_INTERNAL.
C27_WriterErrorMapping ==
    [][WriterStepRaised => wret'.status = StatusOfFailure(raised')]_vars

\* The command line has gone as far as it gets: the helper was started, or
\* osascript or the shell refused the text.
QuotingDone == pc \in {"helper_started", "osascript_error", "sh_error"}

\* C28: for every operation and every argument string, also one with single
\* quotes, double quotes, backslashes or spaces, the argument vector the
\* helper receives after the AppleScript string wrapping and the shell's
\* unquoting is the argument vector the dispatcher built.
C28_MacosQuotingRoundTrip ==
    QuotingDone
    => (pc = "helper_started" /\ osascript.argv = osascript.cmd_args)

\* A public update or remove operation has returned an Outcome other than
\* SUCCESS.
ReturnedWithoutSuccess ==
    /\ pc = "idle" /\ IsMutation(op)
    /\ ret.kind = "return" /\ ret.status # "SUCCESS"

\* C29: when a public update or remove operation, completed directly or
\* through the elevated helper, returns an Outcome other than SUCCESS
\* (ALREADY_EXISTS, an error, USER_CANCELLED, ERROR_INTERNAL of a timeout), the
\* hosts file has, from then on, the content it had before the operation.
C29_OnlySuccessModifies ==
    ReturnedWithoutSuccess => hosts = file0

\* subprocess.run raised TimeoutExpired in this operation.
TimedOut == proc.launch = "TimeoutExpired"

\* C29, amended: when a public update or remove operation returns an Outcome
\* other than SUCCESS, the hosts file has the content it had before the
\* operation, unless the Outcome is the ERROR_INTERNAL of a timeout: the
\* helper may have replaced the file before it was stopped, and then the
\* file has the content the operation was to write.
C29_OnlySuccessOrTimeoutModifies ==
    ReturnedWithoutSuccess
    => \/ hosts = file0
       \/ /\ TimedOut /\ ret.status = "ERROR_INTERNAL"
          /\ hosts = writelines(direct_plan(op, original_lines0).lines)

\* The operation went to the helper, which returned an error of its writer,
\* and the file is as it was.
C29_Witness ==
    /\ ReturnedWithoutSuccess /\ ~TimedOut
    /\ spawned > 0 /\ writer_calls > 0 /\ proc.returncode = 0
    /\ ret.status = "ERROR_IO"
    /\ hosts = file0

\* The operation timed out after the helper had replaced the file.
C29_WitnessTimeout ==
    ReturnedWithoutSuccess /\ TimedOut /\ hosts # file0

\* C30: a read that succeeds through the elevated helper returns the list of
\* lines a direct read of the same file returns: the same lines in the same
\* order, leading and trailing blank lines and lines with ':' included.
C30_ReadPathEquivalence ==
    (RawReadDecoded /\ ret.kind = "return" /\ ret.status = "SUCCESS")
    => ret.content = splitlines(hosts)

====
